---- MODULE Spec2Model ----
(***************************************************************************)
(* A model of the codemap live code-graph engine: the file graph builder   *)
(* (scanner/filegraph.go), the watch daemon (watch/daemon.go,              *)
(* watch/events.go), the persisted snapshot and the pidfile lock           *)
(* (watch/state.go), the hooks (cmd/hooks.go) and the tool server's watch  *)
(* registry (mcp/main.go).                                                 *)
(*                                                                         *)
(* Strings are sequences of tokens.  The separators ".", "/", "::" and the *)
(* quote characters are tokens of their own and every other token is a     *)
(* word without separators, so the tokenisation of a string is unique and  *)
(* the string functions of the code (HasPrefix, TrimSuffix, ReplaceAll,    *)
(* filepath.Ext, filepath.Dir) act on tokens as they act on characters.    *)
(* A Go map is a function whose DOMAIN is its key set; a nil or empty      *)
(* slice is <<>>.  A slice built by ranging over a Go map has no defined   *)
(* order and is modelled as a set.                                         *)
(***************************************************************************)
EXTENDS Integers, Sequences, FiniteSets, TLC

\* ------------------------------------------------------------------------
\* Strings and maps
\* ------------------------------------------------------------------------

SetMax(S) == CHOOSE m \in S : \A x \in S : x <= m

Min(a, b) == IF a <= b THEN a ELSE b

HasPrefix(s, p) == Len(s) >= Len(p) /\ SubSeq(s, 1, Len(p)) = p

HasSuffix(s, p) == Len(s) >= Len(p) /\ SubSeq(s, Len(s) - Len(p) + 1, Len(s)) = p

TrimPrefix(s, p) == IF HasPrefix(s, p) THEN SubSeq(s, Len(p) + 1, Len(s)) ELSE s

TrimSuffix(s, p) == IF HasSuffix(s, p) THEN SubSeq(s, 1, Len(s) - Len(p)) ELSE s

\* strings.Contains(s, t) for a one-token t
Contains(s, t) == \E i \in 1..Len(s) : s[i] = t

\* strings.ReplaceAll(s, old, new) for one-token old and new
ReplaceAll(s, old, new) == [i \in 1..Len(s) |-> IF s[i] = old THEN new ELSE s[i]]

\* the positions of token t in s, in increasing order
Positions(s, t) == SelectSeq([i \in 1..Len(s) |-> i], LAMBDA i : s[i] = t)

QuoteChars == {"\"", "'", "BACKTICK"}

\* strings.Trim(s, cutset) for the cutset of double quote, single quote and backtick
\* (the backtick is the token "BACKTICK")
RECURSIVE TrimQuotes(_)
TrimQuotes(s) ==
    IF s # <<>> /\ s[1] \in QuoteChars THEN TrimQuotes(Tail(s))
    ELSE IF s # <<>> /\ s[Len(s)] \in QuoteChars THEN TrimQuotes(SubSeq(s, 1, Len(s) - 1))
    ELSE s

\* strings.ToLower on one token: the only upper-case tokens of the model
ToLowerTok(t) == CASE t = "GO" -> "go" [] t = "TXT" -> "txt" [] OTHER -> t

ToLower(s) == [i \in 1..Len(s) |-> ToLowerTok(s[i])]

\* filepath.Ext: the suffix starting at the last dot of the last path element
Ext(path) ==
    LET n == Len(path)
        seps == {i \in 1..n : path[i] = "/"}
        lastSep == IF seps = {} THEN 0 ELSE SetMax(seps)
        dots == {i \in (lastSep + 1)..n : path[i] = "."}
    IN  IF dots = {} THEN <<>> ELSE SubSeq(path, SetMax(dots), n)

\* filepath.Dir: all but the last path element, "." when there is none
Dir(path) ==
    LET seps == {i \in 1..Len(path) : path[i] = "/"}
    IN  IF seps = {} THEN <<".">> ELSE SubSeq(path, 1, SetMax(seps) - 1)

\* filepath.Base: the last path element
Base(path) ==
    LET seps == {i \in 1..Len(path) : path[i] = "/"}
    IN  IF seps = {} THEN path ELSE SubSeq(path, SetMax(seps) + 1, Len(path))

\* filepath.Join(a, b) for clean a and b: empty elements are ignored
Join(a, b) == IF a = <<>> THEN b ELSE IF b = <<>> THEN a ELSE a \o <<"/">> \o b

EmptyMap == <<>>

\* m[k] of a Go map: the zero value (a nil slice) for a missing key
MapGet(m, k) == IF k \in DOMAIN m THEN m[k] ELSE <<>>

\* m[k] = v
MapPut(m, k, v) == IF k \in DOMAIN m THEN [m EXCEPT ![k] = v] ELSE m @@ (k :> v)

\* m[k] = append(m[k], v)
MapAppend(m, k, v) == MapPut(m, k, Append(MapGet(m, k), v))

\* a delete that leaves the entry in the map
MapDeleteKept(m, k) == m

\* delete(m, k)
MapDelete(m, k) == [x \in (DOMAIN m) \ {k} |-> m[x]]

\* the elements of a sequence
Range(s) == {s[i] : i \in 1..Len(s)}

\* ------------------------------------------------------------------------
\* The file index and the fuzzy resolver (scanner/filegraph.go)
\* ------------------------------------------------------------------------

\* the loop over the path suffixes of one file in buildFileIndex
RECURSIVE IndexSuffixes(_, _, _, _)
IndexSuffixes(bySuffix, path, seps, i) ==
    IF i > Len(seps) THEN bySuffix
    ELSE LET suffix == SubSeq(path, seps[i] + 1, Len(path))
             noExt == TrimSuffix(suffix, Ext(suffix))
         IN  IndexSuffixes(MapAppend(MapAppend(bySuffix, suffix, path), noExt, path),
                           path, seps, i + 1)

\* the body of the loop over files in buildFileIndex
IndexFile(idx, path, goModule) ==
    LET dir == IF Dir(path) = <<".">> THEN <<>> ELSE Dir(path)
        noExt == TrimSuffix(path, Ext(path))
        pkgPath == IF dir # <<>> THEN goModule \o <<"/">> \o dir ELSE goModule
    IN  [byDir |-> MapAppend(idx.byDir, dir, path),
         byExact |-> MapAppend(MapAppend(idx.byExact, path, path), noExt, path),
         bySuffix |-> IndexSuffixes(idx.bySuffix, path, Positions(path, "/"), 1),
         goPkgs |-> IF HasSuffix(path, <<".", "go">>) /\ goModule # <<>>
                    THEN MapAppend(idx.goPkgs, pkgPath, path)
                    ELSE idx.goPkgs]

RECURSIVE IndexFiles(_, _, _, _)
IndexFiles(idx, files, goModule, i) ==
    IF i > Len(files) THEN idx
    ELSE IndexFiles(IndexFile(idx, files[i].Path, goModule), files, goModule, i + 1)

buildFileIndex(files, goModule) ==
    IndexFiles([byExact |-> EmptyMap, bySuffix |-> EmptyMap, byDir |-> EmptyMap,
                goPkgs |-> EmptyMap], files, goModule, 1)

normalizeImport(imp) ==
    LET unquoted == TrimQuotes(imp)
        dotted == IF Contains(unquoted, ".") /\ ~Contains(unquoted, "/")
                     /\ ~HasPrefix(unquoted, <<".">>)
                  THEN ReplaceAll(unquoted, ".", "/")
                  ELSE unquoted
        crate == IF HasPrefix(dotted, <<"crate", "::">>)
                 THEN ReplaceAll(TrimPrefix(dotted, <<"crate", "::">>), "::", "/")
                 ELSE dotted
    IN  IF HasPrefix(crate, <<"super", "::">>) THEN ReplaceAll(crate, "::", "/") ELSE crate

\* the candidate extensions of tryExactMatch, in order
exactExtensions ==
    << <<>>, <<".", "go">>, <<".", "py">>, <<".", "js">>, <<".", "ts">>, <<".", "tsx">>,
       <<".", "jsx">>, <<".", "rs">>, <<".", "rb">>, <<".", "java">>,
       <<"/", "index", ".", "js">>, <<"/", "index", ".", "ts">>,
       <<"/", "index", ".", "tsx">>, <<"/", "__init__", ".", "py">>,
       <<"/", "mod", ".", "rs">> >>

\* the candidate extensions of trySuffixMatch, in order
suffixExtensions ==
    << <<>>, <<".", "py">>, <<".", "js">>, <<".", "ts">>, <<".", "tsx">>, <<".", "jsx">>,
       <<".", "rs">>, <<".", "rb">>, <<".", "java">>, <<".", "go">> >>

\* for _, ext := range exts { if files, ok := m[base+ext]; ok { return files } }
RECURSIVE FirstCandidate(_, _, _, _)
FirstCandidate(m, base, exts, i) ==
    IF i > Len(exts) THEN <<>>
    ELSE IF (base \o exts[i]) \in DOMAIN m THEN m[base \o exts[i]]
    ELSE FirstCandidate(m, base, exts, i + 1)

tryExactMatch(path, idx) == FirstCandidate(idx.byExact, path, exactExtensions, 1)

trySuffixMatch(normalized, idx) ==
    LET hit == FirstCandidate(idx.bySuffix, normalized, suffixExtensions, 1)
        initCandidate == Join(normalized, <<"__init__", ".", "py">>)
    IN  IF hit # <<>> THEN hit ELSE MapGet(idx.bySuffix, initCandidate)

\* the loop counting and stripping the leading "../" of resolveRelative
RECURSIVE ParentLevels(_)
ParentLevels(rest) ==
    IF HasPrefix(rest, <<".", ".", "/">>)
    THEN LET r == ParentLevels(TrimPrefix(rest, <<".", ".", "/">>))
         IN  [levels |-> r.levels + 1, rest |-> r.rest]
    ELSE [levels |-> 0, rest |-> rest]

\* the loop navigating up from fromDir in resolveRelative
RECURSIVE UpDir(_, _)
UpDir(dir, levels) ==
    IF levels = 0 THEN dir
    ELSE UpDir(IF Dir(dir) = <<".">> THEN <<>> ELSE Dir(dir), levels - 1)

resolveRelative(imp, fromDir, idx) ==
    LET up == ParentLevels(imp)
        rest == TrimPrefix(up.rest, <<".", "/">>)
        targetDir == UpDir(fromDir, up.levels)
        candidate == IF targetDir # <<>> THEN Join(targetDir, rest) ELSE rest
    IN  tryExactMatch(candidate, idx)

fuzzyResolve(imp, fromFile, idx, goModule) ==
    LET fromDir == IF Dir(fromFile) = <<".">> THEN <<>> ELSE Dir(fromFile)
        normalized == normalizeImport(imp)
    IN  IF goModule # <<>> /\ HasPrefix(imp, goModule) /\ imp \in DOMAIN idx.goPkgs
        THEN idx.goPkgs[imp]
        ELSE IF HasPrefix(imp, <<".">>) THEN resolveRelative(imp, fromDir, idx)
        ELSE IF tryExactMatch(normalized, idx) # <<>> THEN tryExactMatch(normalized, idx)
        ELSE trySuffixMatch(normalized, idx)

\* dedupe: the elements of a slice in first-seen order, each once
RECURSIVE dedupe(_)
dedupe(s) ==
    IF s = <<>> THEN <<>>
    ELSE LET front == dedupe(SubSeq(s, 1, Len(s) - 1))
         IN  IF s[Len(s)] \in Range(front) THEN front ELSE Append(front, s[Len(s)])

\* for _, imp := range a.Imports { resolvedImports = append(resolvedImports, resolved...) }
RECURSIVE ResolveAll(_, _, _, _, _)
ResolveAll(imports, fromFile, idx, goModule, i) ==
    IF i > Len(imports) THEN <<>>
    ELSE fuzzyResolve(imports[i], fromFile, idx, goModule)
         \o ResolveAll(imports, fromFile, idx, goModule, i + 1)

\* a reverse map that records only the first import of a file
AddImportersFirstOnly(importers, imported, path, i) ==
    IF i > Len(imported) \/ i > 1 THEN importers
    ELSE MapAppend(importers, imported[i], path)

\* for _, imported := range fg.Imports[a.Path] { fg.Importers[imported] = append(...) }
RECURSIVE AddImporters(_, _, _, _)
AddImporters(importers, imported, path, i) ==
    IF i > Len(imported) THEN importers
    ELSE AddImporters(MapAppend(importers, imported[i], path), imported, path, i + 1)

\* a loop body that stores the imports of the first analysis only
ResolveAnalysisFirstOnly(fg, a, idx) ==
    LET resolvedImports == ResolveAll(a.Imports, a.Path, idx, fg.Module, 1)
        imports == dedupe(resolvedImports)
    IN  IF Len(resolvedImports) > 0 /\ fg.Imports = EmptyMap
        THEN [fg EXCEPT !.Imports = MapPut(@, a.Path, imports),
                        !.Importers = AddImporters(@, imports, a.Path, 1)]
        ELSE fg

\* the body of the loop over analyses in BuildFileGraph
ResolveAnalysis(fg, a, idx) ==
    LET resolvedImports == ResolveAll(a.Imports, a.Path, idx, fg.Module, 1)
        imports == dedupe(resolvedImports)
    IN  IF Len(resolvedImports) > 0
        THEN [fg EXCEPT !.Imports = MapPut(@, a.Path, imports),
                        !.Importers = AddImporters(@, imports, a.Path, 1)]
        ELSE fg

RECURSIVE ResolveAnalyses(_, _, _, _)
ResolveAnalyses(fg, analyses, idx, i) ==
    IF i > Len(analyses) THEN fg
    ELSE ResolveAnalyses(ResolveAnalysis(fg, analyses[i], idx), analyses, idx, i + 1)

\* BuildFileGraph over the scanned files, the go.mod module name and the
\* analyses of the extractor (ScanFiles, detectModule and ScanForDeps are its inputs)
BuildFileGraph(files, goModule, analyses) ==
    LET idx == buildFileIndex(files, goModule)
    IN  ResolveAnalyses([Module |-> goModule, Imports |-> EmptyMap,
                         Importers |-> EmptyMap, Packages |-> idx.goPkgs],
                        analyses, idx, 1)

\* a hub test that asks for more than three importers
IsHubAboveThree(fg, path) == Len(MapGet(fg.Importers, path)) > 3

IsHub(fg, path) == Len(MapGet(fg.Importers, path)) >= 3

HubFiles(fg) == {path \in DOMAIN fg.Importers : Len(fg.Importers[path]) >= 3}

ConnectedFiles(fg, path) ==
    (Range(MapGet(fg.Imports, path)) \cup Range(MapGet(fg.Importers, path))) \ {path}

\* ------------------------------------------------------------------------
\* Program constants and the bounds of the model (times are in milliseconds)
\* ------------------------------------------------------------------------

DebounceWindow == 100

FreshnessWindow == 30000

SnapshotEvents == 50

HotWindow == 300000

\* one small step of the clock, and the number of steps the clock may take
TickMs == 50

MaxTicks == 2

\* the number of file-system operations of the environment
MaxFsOps == 2

\* the number of session-start hooks that run
MaxHooks == 2

\* the number of undelivered file-system events
MaxQueue == 2

\* the largest limit passed to GetEvents
MaxLimit == 2

\* ------------------------------------------------------------------------
\* The repositories the daemon is started on
\* ------------------------------------------------------------------------

PathA == <<"a", ".", "go">>

PathB == <<"b", ".", "go">>

PathC == <<"c", ".", "go">>

PathTypes == <<"types", ".", "go">>

PathNotes == <<"notes", ".", "txt">>

DirSub == <<"sub">>

\* a hidden directory
DirHidden == <<".", "cache">>

\* a directory of build output
DirDist == <<"dist">>

\* the files and the directories the environment creates, writes and removes
EditFiles == {PathA}

\* the paths a file is renamed between
RenamePaths == {PathA, PathNotes}

EditDirs == {DirSub}

AllPaths == {PathA, PathB, PathC, PathTypes, PathNotes, DirSub, DirHidden, DirDist}

\* the contents written to a file: empty, or two lines of which the last is
\* unterminated (the files of the repositories hold one terminated line)
Contents == {<<>>, <<"x", "\n", "x">>}

Absent == [kind |-> "absent"]

IsDirEntry == [kind |-> "dir"]

RegularFile(content) == [kind |-> "file", data |-> content]

OneLine == RegularFile(<<"x", "\n">>)

DiskOf(present) == [p \in AllPaths |-> IF p \in DOMAIN present THEN present[p] ELSE Absent]

Rel(name) == <<".", "/">> \o name

\* one analysis of the import extractor: a file and its raw imports
Analysis(path, imports) == [Path |-> path, Imports |-> imports]

\* a repository: the tree on disk, the order the walker lists it in, the
\* module name of go.mod, the output of the import extractor (an error when
\* the extractor is unavailable) and whether the root holds a .git directory
RepoEmpty ==
    [name |-> "empty", disk |-> DiskOf(<<>>), order |-> <<>>, module |-> <<>>,
     analyses |-> <<>>, depsErr |-> FALSE, git |-> FALSE]

\* three files import types.go
RepoHub ==
    [name |-> "hub",
     disk |-> DiskOf(PathA :> OneLine @@ PathB :> OneLine @@ PathC :> OneLine
                     @@ PathTypes :> OneLine),
     order |-> <<PathA, PathB, PathC, PathTypes>>, module |-> <<>>,
     analyses |-> <<Analysis(PathA, <<Rel(<<"types">>)>>),
                    Analysis(PathB, <<Rel(<<"types">>)>>),
                    Analysis(PathC, <<<<"\"", "types", "\"">>, Rel(<<"types">>)>>),
                    Analysis(PathTypes, <<>>)>>,
     depsErr |-> FALSE, git |-> FALSE]

\* a.go and b.go import each other; b.go is empty; c.go imports itself and a.go;
\* types.go imports the package of the go module, which is every file
RepoCycle ==
    [name |-> "cycle",
     disk |-> DiskOf(PathA :> OneLine @@ PathB :> RegularFile(<<>>) @@ PathC :> OneLine
                     @@ PathTypes :> OneLine @@ DirSub :> IsDirEntry),
     order |-> <<PathA, PathB, PathC, PathTypes>>, module |-> <<"m">>,
     analyses |-> <<Analysis(PathA, <<Rel(<<"b">>), <<"b">>>>),
                    Analysis(PathB, <<Rel(PathA), <<"unknown">>>>),
                    Analysis(PathC, <<Rel(<<"c">>), Rel(<<"types">>), Rel(<<"a">>)>>),
                    Analysis(PathTypes, <<<<"m">>>>)>>,
     depsErr |-> FALSE, git |-> TRUE]

\* the import extractor fails: the daemon runs without a file graph
RepoNoDeps ==
    [name |-> "nodeps", disk |-> DiskOf(PathA :> OneLine), order |-> <<PathA>>,
     module |-> <<>>, analyses |-> <<>>, depsErr |-> TRUE, git |-> FALSE]

Repos == {RepoEmpty, RepoHub, RepoCycle, RepoNoDeps}

\* ------------------------------------------------------------------------
\* The watch daemon (watch/daemon.go, watch/events.go, watch/types.go)
\* ------------------------------------------------------------------------

VARIABLES
    repo,        \* the repository the daemon was created on
    disk,        \* the tree under the root: path -> absent, directory or file
    fsOps,       \* the number of file-system operations of the environment so far
    clock,       \* the time now, in ms
    ticks,       \* the number of steps the clock has taken
    phase,       \* the daemon: "new", "starting", "failed", "watching", "stopping", "stopped"
    loop,        \* the event loop goroutine: "none", "idle", "handling", "writing", "exited"
    watchDirs,   \* the directories added to the watcher
    fsQueue,     \* the events the watcher has not delivered yet
    debounce,    \* eventLoop's debounce map: name -> time of the last event let through
    Files,       \* d.graph.Files: path -> FileInfo
    State,       \* d.graph.State: path -> FileState
    Events,      \* d.graph.Events
    FileGraph,   \* d.graph.FileGraph: <<>> when nil, <<fg>> otherwise
    HasDeps,     \* d.graph.HasDeps
    eventLog,    \* the lines of .codemap/events.log
    stateFile,   \* .codemap/state.json: absent, partial (being rewritten) or full
    writing,     \* the bytes os.WriteFile has still to write, <<>> when none
    obs,         \* what the most recent step returned to its caller, if it was a query
    scanState,   \* d.graph.State as the initial scan left it
    stopTime,    \* when the event loop exited, <<>> before
    stopCalled,  \* when Stop closed d.done, <<>> before
    mu,          \* d.graph.mu: the holder of the write lock, the readers, the blocked readers
    pidFile,     \* .codemap/watch.pid: <<>> when absent, <<pid>> otherwise
    cli,         \* the processes launched as codemap watch start, by pid
    hookPc,      \* the session-start hooks: where each of them stands
    mcp          \* the tool server: its registry of daemons, and its request threads

envVars == <<repo, disk, fsOps>>

timeVars == <<clock, ticks>>

graphVars == <<Files, State, Events, FileGraph, HasDeps>>

daemonVars == <<phase, loop, watchDirs, fsQueue, debounce, scanState, stopTime, stopCalled, mu>>

fileVars == <<eventLog, stateFile, writing>>

lockVars == <<pidFile, cli, hookPc, mcp>>

vars == <<envVars, timeVars, graphVars, daemonVars, fileVars, lockVars, obs>>

NoObs == [kind |-> "none"]

\* d.graph.mu with no holder
MuFree == [writer |-> "none", readers |-> {}, waiting |-> {}]

\* mu.RLock() by thread t: granted unless a writer holds or awaits the lock
RLock(m, t) ==
    IF m.writer = "none"
    THEN [m EXCEPT !.readers = @ \cup {t}]
    ELSE [m EXCEPT !.waiting = @ \cup {t}]

\* mu.RUnlock() by thread t: the last reader hands the lock to the waiting writer
RUnlock(m, t) ==
    [m EXCEPT !.readers = @ \ {t},
              !.writer = IF @ = "pending" /\ m.readers \ {t} = {} THEN "held" ELSE @]

\* mu.Lock(): granted when there is no reader, else the writer waits and
\* new readers queue behind it
Lock(m) == [m EXCEPT !.writer = IF m.readers = {} THEN "held" ELSE "pending"]

\* mu.Unlock(): the blocked readers are let in
Unlock(m) == [writer |-> "none", readers |-> m.waiting, waiting |-> {}]

\* the session-start hooks; the process hook h launches has pid h
Hooks == 1..MaxHooks

\* the request threads of the tool server
McpThreads == {"t1", "t2"}

\* the tool server at its start: an empty registry, no daemon created, the
\* registry lock free, no request under way
McpInit ==
    [watchers |-> EmptyMap, daemons |-> <<>>, holder |-> "none",
     pc |-> [t \in McpThreads |-> "idle"], arg |-> [t \in McpThreads |-> "none"],
     result |-> [t \in McpThreads |-> "none"]]

\* a step of the daemon or of the environment: no caller holds a result
NoCall == obs = NoObs /\ obs' = NoObs

\* --- pure functions of the daemon ---

\* countLines on the content of a file: the tokens bufio.Scanner yields are
\* the newline-terminated lines and a last non-empty unterminated one.  The
\* token "LONG" is a run of 65536 bytes without a line terminator, the
\* largest token the scanner buffers: Scan returns false on a line that
\* holds one and the count stops at the lines before it
countLines(content) ==
    LET longs == Positions(content, "LONG")
        scanned == IF longs = <<>> THEN content ELSE SubSeq(content, 1, longs[1] - 1)
    IN  Len(Positions(scanned, "\n"))
        + (IF longs = <<>> /\ content # <<>> /\ content[Len(content)] # "\n" THEN 1 ELSE 0)

\* countLines(path): 0 when the file cannot be opened
countLinesAt(d, path) == IF d[path].kind = "file" THEN countLines(d[path].data) ELSE 0

SourceExts ==
    {<<".", e>> : e \in {"go", "py", "js", "ts", "tsx", "jsx", "rs", "rb", "java",
                         "swift", "kt", "c", "cpp", "h"}}

isSourceFile(path) == ToLower(Ext(path)) \in SourceExts

\* scanner.DetectLanguage: the language tag of the lower-cased extension
DetectLanguage(path) ==
    LET ext == ToLower(Ext(path))
    IN  CASE ext = <<".", "go">> -> "go"
          [] ext = <<".", "py">> -> "python"
          [] ext = <<".", "js">> -> "javascript"
          [] ext = <<".", "ts">> -> "typescript"
          [] ext = <<".", "rs">> -> "rust"
          [] OTHER -> ""

\* os.Stat(name).Size()
SizeAt(d, path) == Len(d[path].data)

FileInfoAt(d, path) == [Path |-> path, Size |-> SizeAt(d, path), Ext |-> Ext(path)]

\* scanner.ScanFiles: the regular files of the tree in the order of the walk
ScanFiles(d, order) ==
    LET present == SelectSeq(order, LAMBDA p : d[p].kind = "file")
    IN  [i \in 1..Len(present) |-> FileInfoAt(d, present[i])]

\* fullScan: d.graph.Files of the scanned files
ScannedFiles(files) == [p \in {files[i].Path : i \in 1..Len(files)} |->
                          CHOOSE f \in Range(files) : f.Path = p]

\* fullScan: d.graph.State, an entry for every scanned file with lines > 0
ScannedState(d, files) ==
    [p \in {files[i].Path : i \in 1..Len(files)} \cap
           {q \in AllPaths : countLinesAt(d, q) > 0} |->
        [Lines |-> countLinesAt(d, p), Size |-> (ScannedFiles(files)[p]).Size]]

\* scanner.IgnoredDirs: the directory names the one-shot scan always skips,
\* as far as TestIgnoredDirs lists them
IgnoredDirs ==
    {<<".", "git">>, <<"node_modules">>, <<"vendor">>, <<"__pycache__">>,
     <<".", "venv">>, <<"dist">>, <<"target">>, <<".", "gradle">>}

\* the test on a directory name of addWatchDirs and of handleEvent
SkippedDirName(name) ==
    HasPrefix(name, <<".">>) \/ name = <<"node_modules">> \/ name = <<"vendor">>

\* addWatchDirs: the root and every directory under it that is not skipped
\* (the directories of the model lie directly under the root; the root is <<>>)
WalkedDirs(d) ==
    {<<>>} \cup {p \in AllPaths : d[p].kind = "dir" /\ ~SkippedDirName(Base(p))}

\* a scan of the whole buffer, whatever the age of its events
findRelatedHotNoCutoff(fg, events, path, window, now) ==
    LET connectedSet == ConnectedFiles(fg, path)
        recentlyEdited ==
            {events[i].Path : i \in {j \in 1..Len(events) :
                                       /\ events[j].Path # path
                                       /\ events[j].Op \in {"CREATE", "WRITE"}}}
    IN  IF connectedSet = {} THEN {} ELSE connectedSet \cap recentlyEdited

\* findRelatedHot(path, window) at time now
findRelatedHot(fg, events, path, window, now) ==
    LET connectedSet == ConnectedFiles(fg, path)
        cutoff == now - window
        \* the backward scan stops at the first event before the cutoff
        old == {i \in 1..Len(events) : events[i].Time < cutoff}
        first == IF old = {} THEN 1 ELSE SetMax(old) + 1
        recentlyEdited ==
            {events[i].Path : i \in {j \in first..Len(events) :
                                       /\ events[j].Path # path
                                       /\ events[j].Op \in {"CREATE", "WRITE"}}}
    IN  IF connectedSet = {} THEN {} ELSE connectedSet \cap recentlyEdited

\* the switch on fsEvent.Op of handleEvent; "" for the default case
OpOf(flags) ==
    CASE "Create" \in flags -> "CREATE"
      [] "Write" \in flags -> "WRITE"
      [] "Remove" \in flags -> "REMOVE"
      [] "Rename" \in flags -> "RENAME"
      [] OTHER -> ""

\* an event stamped with a clock that runs backwards
NewEventBackwards(now, op, path) ==
    [Time |-> 0 - now, Op |-> op, Path |-> path, Language |-> DetectLanguage(path),
     Lines |-> 0, Delta |-> 0, SizeDelta |-> 0, Dirty |-> FALSE,
     Importers |-> 0, Imports |-> 0, IsHub |-> FALSE, RelatedHot |-> {}]

\* Event{Time, Op, Path, Language}: every other field has its zero value
NewEvent(now, op, path) ==
    [Time |-> now, Op |-> op, Path |-> path, Language |-> DetectLanguage(path),
     Lines |-> 0, Delta |-> 0, SizeDelta |-> 0, Dirty |-> FALSE,
     Importers |-> 0, Imports |-> 0, IsHub |-> FALSE, RelatedHot |-> {}]

\* deltas that ignore the cached FileState
WithWriteDeltasUncached(e, d, st) ==
    [e EXCEPT !.Lines = countLinesAt(d, e.Path), !.Delta = countLinesAt(d, e.Path),
              !.SizeDelta = SizeAt(d, e.Path)]

\* handleEvent, the CREATE/WRITE branch on a regular file: lines and deltas
WithWriteDeltas(e, d, st) ==
    LET newLines == countLinesAt(d, e.Path)
        size == SizeAt(d, e.Path)
    IN  IF e.Path \in DOMAIN st
        THEN [e EXCEPT !.Lines = newLines, !.Delta = newLines - st[e.Path].Lines,
                       !.SizeDelta = size - st[e.Path].Size]
        ELSE [e EXCEPT !.Lines = newLines, !.Delta = newLines, !.SizeDelta = size]

\* a removal that reports the cached values without the sign
WithRemoveDeltasUnsigned(e, st) ==
    IF e.Path \in DOMAIN st
    THEN [e EXCEPT !.Lines = 0, !.Delta = st[e.Path].Lines, !.SizeDelta = st[e.Path].Size]
    ELSE e

\* handleEvent, the REMOVE/RENAME branch: what was lost
WithRemoveDeltas(e, st) ==
    IF e.Path \in DOMAIN st
    THEN [e EXCEPT !.Lines = 0, !.Delta = 0 - st[e.Path].Lines,
                   !.SizeDelta = 0 - st[e.Path].Size]
    ELSE e

\* handleEvent: the structural context from the file graph, when there is one
Enriched(e, fgOpt, hasDeps, events, now) ==
    IF hasDeps /\ fgOpt # <<>>
    THEN [e EXCEPT !.Imports = Len(MapGet(fgOpt[1].Imports, e.Path)),
                   !.Importers = Len(MapGet(fgOpt[1].Importers, e.Path)),
                   !.IsHub = IsHub(fgOpt[1], e.Path),
                   !.RelatedHot = findRelatedHot(fgOpt[1], events, e.Path, HotWindow, now)]
    ELSE e

\* logEvent: the line appended to events.log
LogLine(e) ==
    [time |-> e.Time, op |-> e.Op, path |-> e.Path, lines |-> e.Lines,
     delta |-> IF e.Delta > 0 THEN <<"+", e.Delta>>
               ELSE IF e.Delta < 0 THEN <<"-", 0 - e.Delta>> ELSE <<>>,
     dirty |-> IF e.Dirty THEN "dirty" ELSE ""]

\* --- the snapshot (watch/types.go State, json.MarshalIndent, json.Unmarshal) ---

\* the fields of an Event that `omitempty` keeps
EventJsonFields(e) ==
    {"time", "op", "path"}
    \cup (IF e.Language # "" THEN {"lang"} ELSE {})
    \cup (IF e.Lines # 0 THEN {"lines"} ELSE {})
    \cup (IF e.Delta # 0 THEN {"delta"} ELSE {})
    \cup (IF e.SizeDelta # 0 THEN {"size_delta"} ELSE {})
    \cup (IF e.Dirty THEN {"dirty"} ELSE {})
    \cup (IF e.Importers # 0 THEN {"importers"} ELSE {})
    \cup (IF e.Imports # 0 THEN {"imports"} ELSE {})
    \cup (IF e.IsHub THEN {"is_hub"} ELSE {})
    \cup (IF e.RelatedHot # {} THEN {"related_hot"} ELSE {})

\* an Event as a JSON object: a set of <<name, value>> members
MarshalEvent(e) ==
    {<<f, CASE f = "time" -> <<e.Time>>
            [] f = "op" -> <<e.Op>>
            [] f = "path" -> <<e.Path>>
            [] f = "lang" -> <<e.Language>>
            [] f = "lines" -> <<e.Lines>>
            [] f = "delta" -> <<e.Delta>>
            [] f = "size_delta" -> <<e.SizeDelta>>
            [] f = "dirty" -> <<e.Dirty>>
            [] f = "importers" -> <<e.Importers>>
            [] f = "imports" -> <<e.Imports>>
            [] f = "is_hub" -> <<e.IsHub>>
            [] OTHER -> <<e.RelatedHot>> >> : f \in EventJsonFields(e)}

\* the value of member f of a JSON object, or zero when it has none
JsonField(obj, f, zero) ==
    IF \E m \in obj : m[1] = f THEN (CHOOSE m \in obj : m[1] = f)[2][1] ELSE zero

\* a decoder that does not read the member delta
UnmarshalEventNoDelta(obj) ==
    [Time |-> JsonField(obj, "time", 0), Op |-> JsonField(obj, "op", ""),
     Path |-> JsonField(obj, "path", <<>>), Language |-> JsonField(obj, "lang", ""),
     Lines |-> JsonField(obj, "lines", 0), Delta |-> 0,
     SizeDelta |-> JsonField(obj, "size_delta", 0), Dirty |-> JsonField(obj, "dirty", FALSE),
     Importers |-> JsonField(obj, "importers", 0), Imports |-> JsonField(obj, "imports", 0),
     IsHub |-> JsonField(obj, "is_hub", FALSE), RelatedHot |-> JsonField(obj, "related_hot", {})]

UnmarshalEvent(obj) ==
    [Time |-> JsonField(obj, "time", 0), Op |-> JsonField(obj, "op", ""),
     Path |-> JsonField(obj, "path", <<>>), Language |-> JsonField(obj, "lang", ""),
     Lines |-> JsonField(obj, "lines", 0), Delta |-> JsonField(obj, "delta", 0),
     SizeDelta |-> JsonField(obj, "size_delta", 0), Dirty |-> JsonField(obj, "dirty", FALSE),
     Importers |-> JsonField(obj, "importers", 0), Imports |-> JsonField(obj, "imports", 0),
     IsHub |-> JsonField(obj, "is_hub", FALSE), RelatedHot |-> JsonField(obj, "related_hot", {})]

\* a map[string][]string as a JSON object
MarshalMap(m) == {<<k, m[k]>> : k \in DOMAIN m}

UnmarshalMap(obj) == [k \in {m[1] : m \in obj} |-> (CHOOSE m \in obj : m[1] = k)[2]]

MarshalState(st) ==
    [updated_at |-> st.UpdatedAt, file_count |-> st.FileCount, hubs |-> st.Hubs,
     importers |-> MarshalMap(st.Importers), imports |-> MarshalMap(st.Imports),
     recent_events |-> [i \in 1..Len(st.RecentEvents) |-> MarshalEvent(st.RecentEvents[i])]]

UnmarshalState(doc) ==
    [UpdatedAt |-> doc.updated_at, FileCount |-> doc.file_count, Hubs |-> doc.hubs,
     Importers |-> UnmarshalMap(doc.importers), Imports |-> UnmarshalMap(doc.imports),
     RecentEvents |-> [i \in 1..Len(doc.recent_events) |-> UnmarshalEvent(doc.recent_events[i])]]

\* every event of the buffer
RecentEventsAll(events) == events

\* writeState: the last 50 events of the buffer
RecentEvents(events) ==
    IF Len(events) > SnapshotEvents
    THEN SubSeq(events, Len(events) - SnapshotEvents + 1, Len(events))
    ELSE events

\* writeState: the State value that is serialized at time now
SnapshotOf(fg, files, events, now) ==
    [UpdatedAt |-> now, FileCount |-> Cardinality(DOMAIN files), Hubs |-> HubFiles(fg),
     Importers |-> fg.Importers, Imports |-> fg.Imports,
     RecentEvents |-> RecentEvents(events)]

NoFile == [kind |-> "absent"]

PartialFile == [kind |-> "partial"]

FullFile(doc) == [kind |-> "full", doc |-> doc]

\* a reader that rejects a snapshot from the age of the window on
ReadStateFromWindowOn(file, now) ==
    IF file.kind # "full" THEN <<>>
    ELSE IF now - UnmarshalState(file.doc).UpdatedAt >= FreshnessWindow THEN <<>>
    ELSE <<UnmarshalState(file.doc)>>

\* ReadState at time now: <<>> for nil, <<state>> otherwise
ReadState(file, now) ==
    IF file.kind = "absent" THEN <<>>
    ELSE IF file.kind = "partial" THEN <<>>
    ELSE IF now - UnmarshalState(file.doc).UpdatedAt > FreshnessWindow THEN <<>>
    ELSE <<UnmarshalState(file.doc)>>

\* hubInfo.isHub of cmd/hooks.go, on the importers of a snapshot
isHub(h, path) == Len(MapGet(h.Importers, path)) >= 3

\* getHubInfo of cmd/hooks.go, from the daemon state
HubInfoOf(state) == [Hubs |-> state.Hubs, Importers |-> state.Importers, Imports |-> state.Imports]

\* a copy of the first limit events
GetEventsHead(events, limit) ==
    IF limit > 0 /\ Len(events) > limit THEN SubSeq(events, 1, limit) ELSE events

\* GetEvents(limit): a copy of the last limit events, of all when limit is 0
GetEvents(events, limit) ==
    IF limit > 0 /\ Len(events) > limit
    THEN SubSeq(events, Len(events) - limit + 1, Len(events))
    ELSE events

FileCount(files) == Cardinality(DOMAIN files)

\* ------------------------------------------------------------------------
\* The daemon as a state machine
\* ------------------------------------------------------------------------

Init ==
    /\ repo \in Repos
    /\ disk = repo.disk
    /\ fsOps = 0
    /\ clock = 0
    /\ ticks = 0
    /\ phase = "new"
    /\ loop = "none"
    /\ watchDirs = {}
    /\ fsQueue = <<>>
    /\ debounce = EmptyMap
    /\ Files = EmptyMap
    /\ State = EmptyMap
    /\ Events = <<>>
    /\ FileGraph = <<>>
    /\ HasDeps = FALSE
    /\ eventLog = <<>>
    /\ stateFile = NoFile
    /\ writing = <<>>
    /\ obs = NoObs
    /\ scanState = EmptyMap
    /\ stopTime = <<>>
    /\ stopCalled = <<>>
    /\ mu = MuFree
    /\ pidFile = <<>>
    /\ cli = [p \in Hooks |-> "none"]
    /\ hookPc = [h \in Hooks |-> "idle"]
    /\ mcp = McpInit

\* computeDeps: the file graph of the repository, nil when the extractor fails
computeDeps(files) ==
    IF repo.depsErr THEN <<>> ELSE <<BuildFileGraph(files, repo.module, repo.analyses)>>

\* writeState at time now: nothing without a file graph; otherwise
\* os.WriteFile truncates state.json and the bytes are still to be written
writeState(fgOpt, files, events, now) ==
    IF fgOpt = <<>>
    THEN [file |-> stateFile, pending |-> <<>>]
    ELSE [file |-> PartialFile,
          pending |-> <<MarshalState(SnapshotOf(fgOpt[1], files, events, now))>>]

\* Daemon.Start up to the write of the initial state: fullScan, computeDeps,
\* addWatchDirs, writeState
Start ==
    /\ phase = "new"
    /\ LET files == ScanFiles(disk, repo.order)
           w == writeState(computeDeps(files), ScannedFiles(files), Events, clock)
       IN  /\ Files' = ScannedFiles(files)
           /\ State' = ScannedState(disk, files)
           /\ scanState' = ScannedState(disk, files)
           /\ FileGraph' = computeDeps(files)
           /\ HasDeps' = (computeDeps(files) # <<>>)
           /\ watchDirs' = WalkedDirs(disk)
           /\ stateFile' = w.file
           /\ writing' = w.pending
           /\ phase' = IF w.pending = <<>> THEN "watching" ELSE "starting"
           /\ loop' = IF w.pending = <<>> THEN "idle" ELSE "none"
    /\ NoCall
    /\ UNCHANGED <<lockVars, envVars, timeVars, Events, fsQueue, debounce, stopTime, stopCalled, mu, eventLog>>

\* Daemon.Start: os.WriteFile completes, the event loop is started, Start returns
StartReturn ==
    /\ phase = "starting"
    /\ stateFile' = FullFile(writing[1])
    /\ writing' = <<>>
    /\ phase' = "watching"
    /\ loop' = "idle"
    /\ NoCall
    /\ UNCHANGED <<lockVars, envVars, timeVars, graphVars, watchDirs, fsQueue, debounce, scanState,
                   stopTime, stopCalled, mu, eventLog>>

\* a Start that starts the event loop although it returns an error
StartFailsLoopStarted(step, watched) ==
    /\ phase = "new"
    /\ step \in {"mkdir", "scan", "watch"}
    /\ watched = {}
    /\ phase' = "failed"
    /\ loop' = "idle"
    /\ NoCall
    /\ UNCHANGED <<lockVars, envVars, timeVars, graphVars, watchDirs, fsQueue, debounce,
                   scanState, stopTime, stopCalled, mu, fileVars>>

\* Daemon.Start returns an error: os.MkdirAll fails, or fullScan does, or
\* addWatchDirs does after the directories in watched were registered (the
\* walk registers the root first); the event loop is not started
StartFails(step, watched) ==
    /\ phase = "new"
    /\ phase' = "failed"
    /\ IF step = "watch"
       THEN LET files == ScanFiles(disk, repo.order)
            IN  /\ watched \subseteq WalkedDirs(disk)
                /\ watched # WalkedDirs(disk)
                /\ watched # {} => <<>> \in watched
                /\ Files' = ScannedFiles(files)
                /\ State' = ScannedState(disk, files)
                /\ scanState' = ScannedState(disk, files)
                /\ FileGraph' = computeDeps(files)
                /\ HasDeps' = (computeDeps(files) # <<>>)
                /\ watchDirs' = watched
       ELSE /\ step \in {"mkdir", "scan"}
            /\ watched = {}
            /\ UNCHANGED <<Files, State, scanState, FileGraph, HasDeps, watchDirs>>
    /\ NoCall
    /\ UNCHANGED <<lockVars, envVars, timeVars, Events, loop, fsQueue, debounce, stopTime,
                   stopCalled, mu, fileVars>>

\* eventLoop: the filter that drops an event on a file that is no source
\* file, unless it is the creation of a directory
Filtered(ev) ==
    /\ ~isSourceFile(ev.Name)
    /\ ~("Create" \in ev.Op /\ disk[ev.Name].kind = "dir")

\* eventLoop: the debounce test
Debounced(ev) ==
    /\ ev.Name \in DOMAIN debounce
    /\ clock - debounce[ev.Name] < DebounceWindow

\* handleEvent on an event let through, its timestamp taken at time now:
\* the new values of the graph and of the watch set, and whether an event
\* was appended
handleEvent(ev, now, dirty) ==
    LET op == OpOf(ev.Op)
        path == ev.Name
        same == [Files |-> Files, State |-> State, Events |-> Events,
                 watchDirs |-> watchDirs, recorded |-> FALSE]
        appended(e, files, st) ==
            [Files |-> files, State |-> st,
             Events |-> Append(Events, Enriched(e, FileGraph, HasDeps, Events, now)),
             watchDirs |-> watchDirs, recorded |-> TRUE]
    IN  IF op = "" THEN same
        ELSE IF op \in {"CREATE", "WRITE"}
        THEN IF disk[path].kind = "absent" THEN same
             ELSE IF disk[path].kind = "dir"
             THEN IF SkippedDirName(Base(path)) THEN same
                  ELSE [same EXCEPT !.watchDirs = watchDirs \cup {path}]
             ELSE appended([WithWriteDeltas(NewEvent(now, op, path), disk, State)
                               EXCEPT !.Dirty = dirty],
                           MapPut(Files, path, FileInfoAt(disk, path)),
                           MapPut(State, path, [Lines |-> countLinesAt(disk, path),
                                                Size |-> SizeAt(disk, path)]))
        ELSE appended(WithRemoveDeltas(NewEvent(now, op, path), State),
                      MapDelete(Files, path), MapDelete(State, path))

\* whether handleEvent reads the clock and the git status to any effect
Records(ev) == ~Filtered(ev) /\ ~Debounced(ev) /\ handleEvent(ev, clock, FALSE).recorded

\* handleEvent, logEvent and writeState on an event that was let through
Handling(ev, latency, dirty) ==
    LET now == clock + latency
        h == handleEvent(ev, now, dirty)
        w == IF h.recorded
             THEN writeState(FileGraph, h.Files, h.Events, now)
             ELSE [file |-> stateFile, pending |-> <<>>]
    IN  /\ Files' = h.Files
        /\ State' = h.State
        /\ Events' = h.Events
        /\ watchDirs' = h.watchDirs
        /\ eventLog' = IF h.recorded
                       THEN Append(eventLog, LogLine(h.Events[Len(h.Events)]))
                       ELSE eventLog
        /\ stateFile' = w.file
        /\ writing' = w.pending
        /\ loop' = IF w.pending = <<>> THEN "idle" ELSE "writing"
        /\ clock' = now
        /\ ticks' = IF latency > 0 THEN ticks + 1 ELSE ticks
        /\ UNCHANGED <<FileGraph, HasDeps>>

\* one iteration of eventLoop on the next event of the watcher: filter,
\* debounce, handleEvent, logEvent and writeState, with no change of the
\* file system in between.  latency is the time between the debounce stamp
\* and the event timestamp; dirty is the answer of git diff --quiet
LoopEvent(latency, dirty) ==
    /\ loop = "idle"
    /\ phase \in {"watching", "stopping"}
    /\ fsQueue # <<>>
    /\ latency > 0 => ticks < MaxTicks /\ Records(Head(fsQueue))
    /\ dirty => /\ repo.git
                /\ Records(Head(fsQueue))
                /\ OpOf(Head(fsQueue).Op) \in {"CREATE", "WRITE"}
    /\ fsQueue' = Tail(fsQueue)
    /\ IF Filtered(Head(fsQueue)) \/ Debounced(Head(fsQueue))
       THEN UNCHANGED <<debounce, graphVars, watchDirs, fileVars, loop, timeVars>>
       ELSE /\ debounce' = MapPut(debounce, Head(fsQueue).Name, clock)
            /\ Handling(Head(fsQueue), latency, dirty)
    /\ NoCall
    /\ UNCHANGED <<lockVars, envVars, phase, scanState, stopTime, stopCalled, mu>>

\* eventLoop drops the next event of the watcher: filtered or debounced
LoopDrop ==
    /\ loop = "idle"
    /\ phase \in {"watching", "stopping"}
    /\ fsQueue # <<>>
    /\ Filtered(Head(fsQueue)) \/ Debounced(Head(fsQueue))
    /\ fsQueue' = Tail(fsQueue)
    /\ NoCall
    /\ UNCHANGED <<lockVars, envVars, timeVars, graphVars, phase, loop, watchDirs, debounce,
                   scanState, stopTime, stopCalled, mu, fileVars>>

\* eventLoop lets the next event of the watcher through the filter and the
\* debounce test and stamps it; handleEvent has not run yet
LoopPass ==
    /\ loop = "idle"
    /\ phase \in {"watching", "stopping"}
    /\ fsQueue # <<>>
    /\ ~Filtered(Head(fsQueue))
    /\ ~Debounced(Head(fsQueue))
    /\ debounce' = MapPut(debounce, Head(fsQueue).Name, clock)
    /\ loop' = "handling"
    /\ NoCall
    /\ UNCHANGED <<lockVars, envVars, timeVars, graphVars, phase, watchDirs, fsQueue,
                   scanState, stopTime, stopCalled, mu, fileVars>>

\* handleEvent, logEvent and writeState on the event LoopPass let through,
\* on the file system as it is by now
LoopHandle ==
    /\ loop = "handling"
    /\ fsQueue' = Tail(fsQueue)
    /\ Handling(Head(fsQueue), 0, FALSE)
    /\ NoCall
    /\ UNCHANGED <<lockVars, envVars, phase, debounce, scanState, stopTime, stopCalled, mu>>

\* writeState in the event loop: os.WriteFile completes
LoopWritten ==
    /\ loop = "writing"
    /\ stateFile' = FullFile(writing[1])
    /\ writing' = <<>>
    /\ loop' = "idle"
    /\ NoCall
    /\ UNCHANGED <<lockVars, envVars, timeVars, graphVars, phase, watchDirs, fsQueue, debounce,
                   scanState, stopTime, stopCalled, mu, eventLog>>

\* eventLoop returns: d.done is closed, or the watcher's channels are
\* (a select with several ready cases picks any of them)
LoopExit ==
    /\ loop = "idle"
    /\ phase \in {"stopping", "stopped"}
    /\ loop' = "exited"
    /\ stopTime' = <<clock>>
    /\ UNCHANGED <<stopCalled, mu>>
    /\ NoCall
    /\ UNCHANGED <<lockVars, envVars, timeVars, graphVars, phase, watchDirs, fsQueue, debounce,
                   scanState, fileVars>>

\* Daemon.Stop: close(d.done)
StopCloseDone ==
    /\ phase = "watching"
    /\ phase' = "stopping"
    /\ stopCalled' = <<clock>>
    /\ NoCall
    /\ UNCHANGED <<lockVars, envVars, timeVars, graphVars, loop, watchDirs, fsQueue, debounce,
                   scanState, stopTime, mu, fileVars>>

\* Daemon.Stop: d.watcher.Close(), which drops the undelivered events
StopCloseWatcher ==
    /\ phase = "stopping"
    /\ phase' = "stopped"
    /\ fsQueue' = <<>>
    /\ watchDirs' = {}
    /\ NoCall
    /\ UNCHANGED <<lockVars, envVars, timeVars, graphVars, loop, debounce, scanState, stopTime, stopCalled, mu,
                   fileVars>>

\* --- the environment: the file system under a running watcher ---

Watching(path) ==
    /\ phase \in {"failed", "watching", "stopping"}
    /\ (IF Dir(path) = <<".">> THEN <<>> ELSE Dir(path)) \in watchDirs

FsEvent(name, op) == [Name |-> name, Op |-> {op}]

EnvStep ==
    /\ fsOps' = fsOps + 1
    /\ NoCall
    /\ UNCHANGED <<lockVars, repo, timeVars, graphVars, phase, loop, watchDirs, debounce, scanState,
                   stopTime, stopCalled, mu, fileVars>>

\* a file is created or overwritten
EnvWrite(path, content) ==
    /\ Watching(path)
    /\ disk[path].kind # "dir"
    /\ EnvStep
    /\ disk' = [disk EXCEPT ![path] = RegularFile(content)]
    /\ fsQueue' = Append(fsQueue, FsEvent(path, IF disk[path].kind = "absent"
                                                THEN "Create" ELSE "Write"))

\* a file is removed
EnvRemove(path) ==
    /\ Watching(path)
    /\ disk[path].kind = "file"
    /\ EnvStep
    /\ disk' = [disk EXCEPT ![path] = Absent]
    /\ fsQueue' = Append(fsQueue, FsEvent(path, "Remove"))

\* a file is renamed onto another path
EnvRename(from, to) ==
    /\ Watching(from)
    /\ Watching(to)
    /\ from # to
    /\ disk[from].kind = "file"
    /\ disk[to].kind # "dir"
    /\ EnvStep
    /\ disk' = [disk EXCEPT ![from] = Absent, ![to] = disk[from]]
    /\ fsQueue' = fsQueue \o <<FsEvent(from, "Rename"), FsEvent(to, "Create")>>

\* the mode of a file is changed
EnvChmod(path) ==
    /\ Watching(path)
    /\ disk[path].kind = "file"
    /\ EnvStep
    /\ UNCHANGED disk
    /\ fsQueue' = Append(fsQueue, FsEvent(path, "Chmod"))

\* a directory is created
EnvMkdir(path) ==
    /\ Watching(path)
    /\ disk[path].kind = "absent"
    /\ EnvStep
    /\ disk' = [disk EXCEPT ![path] = IsDirEntry]
    /\ fsQueue' = Append(fsQueue, FsEvent(path, "Create"))

\* an empty directory is removed, and its watch with it
EnvRmdir(path) ==
    /\ Watching(path)
    /\ disk[path].kind = "dir"
    /\ disk' = [disk EXCEPT ![path] = Absent]
    /\ fsQueue' = Append(fsQueue, FsEvent(path, "Remove"))
    /\ watchDirs' = watchDirs \ {path}
    /\ fsOps' = fsOps + 1
    /\ NoCall
    /\ UNCHANGED <<lockVars, repo, timeVars, graphVars, phase, loop, debounce, scanState,
                   stopTime, stopCalled, mu, fileVars>>

\* the watcher has room for n more undelivered events
Room(n) == Len(fsQueue) + n <= MaxQueue

\* time passes
Tick(d) ==
    /\ clock' = clock + d
    /\ ticks' = ticks + 1
    /\ NoCall
    /\ UNCHANGED <<lockVars, envVars, graphVars, daemonVars, fileVars>>

\* --- the queries ---

\* a caller of Daemon.GetEvents(limit)
CallGetEvents(limit) ==
    /\ obs = NoObs
    /\ phase # "new"
    /\ obs' = [kind |-> "events", limit |-> limit, result |-> GetEvents(Events, limit)]
    /\ UNCHANGED <<lockVars, envVars, timeVars, graphVars, daemonVars, fileVars>>

\* a hook calls watch.ReadState(root)
CallReadState ==
    /\ obs = NoObs
    /\ obs' = [kind |-> "state", at |-> clock, result |-> ReadState(stateFile, clock)]
    /\ UNCHANGED <<lockVars, envVars, timeVars, graphVars, daemonVars, fileVars>>

\* the caller of a query is done with the result
CallReturn ==
    /\ obs # NoObs
    /\ obs' = NoObs
    /\ UNCHANGED <<lockVars, envVars, timeVars, graphVars, daemonVars, fileVars>>

Next ==
    \/ Start
    \/ StartReturn
    \/ \E latency \in {0, TickMs}, dirty \in BOOLEAN : LoopEvent(latency, dirty)
    \/ LoopWritten
    \/ LoopExit
    \/ StopCloseDone
    \/ StopCloseWatcher
    \/ fsOps < MaxFsOps /\ Room(1) /\ \E path \in EditFiles, content \in Contents : EnvWrite(path, content)
    \/ fsOps < MaxFsOps /\ Room(1) /\ \E path \in EditFiles : EnvRemove(path)
    \/ fsOps < MaxFsOps /\ Room(2) /\ \E from \in RenamePaths, to \in RenamePaths : EnvRename(from, to)
    \/ fsOps < MaxFsOps /\ Room(1) /\ \E path \in EditFiles : EnvChmod(path)
    \/ fsOps < MaxFsOps /\ Room(1) /\ \E path \in EditDirs : EnvMkdir(path)
    \/ ticks < MaxTicks /\ \E d \in {TickMs, FreshnessWindow} : Tick(d)
    \/ \E limit \in 0..MaxLimit : CallGetEvents(limit)
    \/ CallReadState
    \/ CallReturn

Spec == Init /\ [][Next]_vars


\* --- a long run: an editor saves a.go again and again, each time one
\* debounce window after the save before was handled ---

\* the number of saves of the long run
TailSaves == 52

TailContent == <<"x", "\n", "x">>

InitTail ==
    /\ Init
    /\ repo = RepoHub

\* the editor saves only when the daemon has handled the save before
TailTurn == phase = "watching" /\ loop = "idle" /\ fsQueue = <<>>

NextTail ==
    \/ Start
    \/ StartReturn
    \/ LoopEvent(0, FALSE)
    \/ LoopWritten
    \/ TailTurn /\ fsOps < TailSaves /\ fsOps = ticks /\ EnvWrite(PathA, TailContent)
    \/ TailTurn /\ fsOps > ticks /\ Tick(DebounceWindow)

SpecTail == InitTail /\ [][NextTail]_vars


\* --- the pidfile, the hooks and the tool server (watch/state.go,
\* cmd/hooks.go, mcp/main.go) ---

\* the process with this pid exists: signal 0 can be delivered to it
Alive(procs, pid) == procs[pid] \in {"launched", "watching", "other"}

\* watch.IsRunning: the pidfile can be read and its process exists
IsRunning(file, procs) == file # <<>> /\ Alive(procs, file[1])

\* watch.WritePID: the pidfile afterwards
WritePID(pid) == <<pid>>

\* watch.RemovePID: the pidfile afterwards
RemovePID == <<>>

LockStep ==
    /\ NoCall
    /\ UNCHANGED <<mcp, envVars, timeVars, graphVars, daemonVars, fileVars>>

\* hookSessionStart: the test of watch.IsRunning
hookSessionStart(h) ==
    /\ hookPc[h] = "idle"
    /\ hookPc' = [hookPc EXCEPT ![h] = IF IsRunning(pidFile, cli) THEN "done" ELSE "launch"]
    /\ UNCHANGED <<pidFile, cli>>
    /\ LockStep

\* startDaemon: the hook launches codemap watch start in the background
startDaemon(h) ==
    /\ hookPc[h] = "launch"
    /\ hookPc' = [hookPc EXCEPT ![h] = "done"]
    /\ cli' = [cli EXCEPT ![h] = "launched"]
    /\ UNCHANGED pidFile
    /\ LockStep

\* codemap watch start in the launched process: refuse when a daemon is
\* running, else write the pidfile and watch (test and write in one step)
watchStart(pid) ==
    /\ cli[pid] = "launched"
    /\ IF IsRunning(pidFile, [cli EXCEPT ![pid] = "none"])
       THEN cli' = [cli EXCEPT ![pid] = "refused"] /\ UNCHANGED pidFile
       ELSE cli' = [cli EXCEPT ![pid] = "watching"] /\ pidFile' = WritePID(pid)
    /\ UNCHANGED hookPc
    /\ LockStep

\* stopDaemon of a session-stop hook: watch.IsRunning, then watch.Stop, which
\* signals the process of the pidfile and removes the pidfile
stopDaemon ==
    /\ IsRunning(pidFile, cli)
    /\ cli' = [cli EXCEPT ![pidFile[1]] = "exited"]
    /\ pidFile' = RemovePID
    /\ UNCHANGED hookPc
    /\ LockStep

\* a Stop that leaves the pidfile in place
StopKeepsPidfile(file, procs) ==
    IF file = <<>> \/ ~Alive(procs, file[1])
    THEN [err |-> TRUE, signalled |-> <<>>, file |-> file, procs |-> procs]
    ELSE [err |-> FALSE, signalled |-> <<file[1]>>, file |-> file,
          procs |-> [procs EXCEPT ![file[1]] = "exited"]]

\* watch.Stop: the error it returns, the process it signals, and the pidfile
\* and the processes afterwards.  ReadPID fails without a pidfile; SIGTERM
\* cannot be delivered to a process that is gone, and the pidfile stays
Stop(file, procs) ==
    IF file = <<>>
    THEN [err |-> TRUE, signalled |-> <<>>, file |-> file, procs |-> procs]
    ELSE IF ~Alive(procs, file[1])
    THEN [err |-> TRUE, signalled |-> <<>>, file |-> file, procs |-> procs]
    ELSE [err |-> FALSE, signalled |-> <<file[1]>>, file |-> RemovePID,
          procs |-> [procs EXCEPT ![file[1]] = "exited"]]

\* a caller runs watch.Stop(root)
CallStop ==
    /\ obs = NoObs
    /\ obs' = [kind |-> "stop", err |-> Stop(pidFile, cli).err,
               signalled |-> Stop(pidFile, cli).signalled]
    /\ pidFile' = Stop(pidFile, cli).file
    /\ cli' = Stop(pidFile, cli).procs
    /\ UNCHANGED <<hookPc, mcp, envVars, timeVars, graphVars, daemonVars, fileVars>>

\* a watching process is killed and leaves its pidfile behind
cliKilled(pid) ==
    /\ cli[pid] = "watching"
    /\ cli' = [cli EXCEPT ![pid] = "exited"]
    /\ UNCHANGED <<pidFile, hookPc>>
    /\ LockStep

\* the pid of a process that is gone is given to a process that is no
\* codemap process
pidReused(pid) ==
    /\ cli[pid] = "exited"
    /\ cli' = [cli EXCEPT ![pid] = "other"]
    /\ UNCHANGED <<pidFile, hookPc>>
    /\ LockStep

InitLock ==
    /\ Init
    /\ repo = RepoHub

\* the tool server handles start_watch by Start and stop_watch by Stop of a
\* daemon of its own; the hooks and the processes they launch run beside it
NextLock ==
    \/ Start
    \/ StartReturn
    \/ StopCloseDone
    \/ StopCloseWatcher
    \/ LoopExit
    \/ \E h \in Hooks : hookSessionStart(h)
    \/ \E h \in Hooks : startDaemon(h)
    \/ \E pid \in Hooks : watchStart(pid)
    \/ stopDaemon

SpecLock == InitLock /\ [][NextLock]_vars


\* --- the caller of GetEvents and the events it was handed ---

\* the position in the buffer of event i of the result a caller holds: the
\* result is a copy of the tail of the buffer, made in this very step
BufferIndex(i) == Len(Events) - Len(obs.result) + i

\* the caller assigns a field of an Event struct of the result: copy() has
\* copied the structs, the buffer keeps its own
CallerWritesField(i, lines) ==
    /\ obs.kind = "events"
    /\ i \in 1..Len(obs.result)
    /\ obs.result[i].Lines # lines
    /\ obs' = [obs EXCEPT !.result[i].Lines = lines]
    /\ UNCHANGED <<lockVars, envVars, timeVars, graphVars, daemonVars, fileVars>>

\* the caller assigns an element of the RelatedHot slice of an event of the
\* result: copy() has copied the slice header, so the element is the one the
\* event of the buffer refers to
CallerWritesHot(i, old, new) ==
    /\ obs.kind = "events"
    /\ i \in 1..Len(obs.result)
    /\ old \in obs.result[i].RelatedHot
    /\ new \notin obs.result[i].RelatedHot
    /\ obs' = [obs EXCEPT !.result[i].RelatedHot = (@ \ {old}) \cup {new}]
    /\ Events' = [Events EXCEPT ![BufferIndex(i)].RelatedHot = (@ \ {old}) \cup {new}]
    /\ UNCHANGED <<lockVars, envVars, timeVars, Files, State, FileGraph, HasDeps,
                   daemonVars, fileVars>>

\* a caller of Daemon.GetGraph(): the result is d.graph itself, the pointer
\* to the live Graph, handed out with no lock taken
CallGetGraph ==
    /\ obs = NoObs
    /\ phase # "new"
    /\ obs' = [kind |-> "graph"]
    /\ UNCHANGED <<lockVars, envVars, timeVars, graphVars, daemonVars, fileVars>>

\* the caller deletes an entry of the Files map of the Graph it was handed:
\* the map is the one of the daemon
CallerWritesGraph(path) ==
    /\ obs.kind = "graph"
    /\ path \in DOMAIN Files
    /\ Files' = MapDelete(Files, path)
    /\ UNCHANGED <<lockVars, envVars, timeVars, State, Events, FileGraph, HasDeps,
                   daemonVars, fileVars, obs>>

\* the number of saves of the run with two connected files
HotSaves == 3

\* a.go and b.go import each other
HotFiles == {PathA, PathB}

InitHot ==
    /\ Init
    /\ repo = RepoCycle

NextHot ==
    \/ Start
    \/ StartReturn
    \/ LoopEvent(0, FALSE)
    \/ LoopWritten
    \/ fsOps < HotSaves /\ \E path \in HotFiles : EnvWrite(path, TailContent)
    \/ ticks < MaxTicks /\ \E d \in {TickMs, HotWindow} : Tick(d)
    \/ \E limit \in 0..MaxLimit : CallGetEvents(limit)
    \/ CallReturn
    \/ \E i \in 1..HotSaves : CallerWritesField(i, 0)
    \/ \E i \in 1..HotSaves, old \in HotFiles : CallerWritesHot(i, old, PathNotes)
    \/ CallGetGraph
    \/ \E path \in HotFiles : CallerWritesGraph(path)

SpecHot == InitHot /\ [][NextHot]_vars


\* --- the file system changes between the filter of eventLoop and
\* handleEvent: a directory is created, removed, and a file takes its name ---

\* the number of file-system operations of the run
RaceOps == 3

\* the directories that are created and removed
RaceDirs == {DirSub, DirHidden, DirDist}

NextRace ==
    \/ Start
    \/ StartReturn
    \/ LoopDrop
    \/ LoopPass
    \/ LoopHandle
    \/ LoopWritten
    \/ fsOps < RaceOps /\ \E path \in RaceDirs : EnvMkdir(path)
    \/ fsOps < RaceOps /\ \E path \in RaceDirs : EnvRmdir(path)
    \/ fsOps < RaceOps /\ \E path \in EditDirs : EnvWrite(path, TailContent)

SpecRace == Init /\ [][NextRace]_vars


\* --- Daemon.Start succeeds or fails, and files are saved afterwards ---

\* the number of saves of the run
StartOps == 3

\* the steps of Start that can fail
StartSteps == {"mkdir", "scan", "watch"}

NextStart ==
    \/ Start
    \/ StartReturn
    \/ \E step \in StartSteps, watched \in SUBSET {<<>>, DirSub} : StartFails(step, watched)
    \/ LoopEvent(0, FALSE)
    \/ LoopWritten
    \/ fsOps < StartOps /\ \E path \in EditFiles, content \in Contents : EnvWrite(path, content)

SpecStart == Init /\ [][NextStart]_vars


\* --- watch.Stop on a pidfile that is absent, live or stale ---

NextStop ==
    \/ \E h \in Hooks : hookSessionStart(h)
    \/ \E h \in Hooks : startDaemon(h)
    \/ \E pid \in Hooks : watchStart(pid)
    \/ \E pid \in Hooks : cliKilled(pid)
    \/ \E pid \in Hooks : pidReused(pid)
    \/ stopDaemon
    \/ CallStop
    \/ CallReturn

SpecStop == Init /\ [][NextStop]_vars


\* --- the pure functions, called on inputs of bounded size ---

\* the longest content, in tokens
PureLen == 3

\* the sequences over S of length at most n
SeqsUpTo(S, n) == UNION {[1..k -> S] : k \in 0..n}

\* countLines is called on a file of this content
CallCountLines(content) ==
    /\ obs = NoObs
    /\ obs' = [kind |-> "lines", arg |-> content, result |-> countLines(content)]
    /\ UNCHANGED <<lockVars, envVars, timeVars, graphVars, daemonVars, fileVars>>

\* BuildFileGraph is run twice on the tree of the repository; the extractor
\* lists its analyses in the order perm the second time
CallBuild(perm) ==
    /\ obs = NoObs
    /\ LET files == ScanFiles(disk, repo.order)
           again == [i \in 1..Len(repo.analyses) |-> repo.analyses[perm[i]]]
       IN  obs' = [kind |-> "build",
                   first |-> BuildFileGraph(files, repo.module, repo.analyses),
                   second |-> BuildFileGraph(files, repo.module, again)]
    /\ UNCHANGED <<lockVars, envVars, timeVars, graphVars, daemonVars, fileVars>>

\* the tokens of the raw imports
ImportTokens == {"\"", "a", ".", "/", "::", "crate", "super"}

\* normalizeImport is called on a raw import
CallNormalizeImport(imp) ==
    /\ obs = NoObs
    /\ obs' = [kind |-> "normalize", arg |-> imp, result |-> normalizeImport(imp)]
    /\ UNCHANGED <<lockVars, envVars, timeVars, graphVars, daemonVars, fileVars>>

\* a tree for the resolver: a hidden file at the root, a file in a
\* directory, an index file two directories down and a Go file of module m
PureFiles ==
    << [Path |-> <<".", "rc", ".", "js">>], [Path |-> <<"sub", "/", "a", ".", "js">>],
       [Path |-> <<"pkg", "/", "lib", "/", "index", ".", "js">>],
       [Path |-> <<"a", ".", "go">>] >>

PureIndex == buildFileIndex(PureFiles, <<"m">>)

\* the raw imports that are resolved
PureImports ==
    {<<".", "rc">>, <<".", "/", "a">>, <<".", ".", "/", "a">>, <<"lib">>, <<"m">>, <<"a">>,
     <<"pkg", ".", "lib">>, <<"m", "/", "x">>, <<"index">>, <<"x">>}

\* fuzzyResolve is called on a raw import of a file of the tree
CallFuzzyResolve(imp, fromFile) ==
    /\ obs = NoObs
    /\ obs' = [kind |-> "resolve", imp |-> imp, from |-> fromFile,
               result |-> fuzzyResolve(imp, fromFile, PureIndex, <<"m">>)]
    /\ UNCHANGED <<lockVars, envVars, timeVars, graphVars, daemonVars, fileVars>>

\* tryExactMatch and trySuffixMatch are called on a normalized import
CallMatch(path) ==
    /\ obs = NoObs
    /\ obs' = [kind |-> "match", arg |-> path, exact |-> tryExactMatch(path, PureIndex),
               suffix |-> trySuffixMatch(path, PureIndex)]
    /\ UNCHANGED <<lockVars, envVars, timeVars, graphVars, daemonVars, fileVars>>

NextPure ==
    \/ \E imp \in PureImports, i \in 1..Len(PureFiles) : CallFuzzyResolve(imp, PureFiles[i].Path)
    \/ \E path \in PureImports : CallMatch(path)
    \/ \E imp \in SeqsUpTo(ImportTokens, PureLen) : CallNormalizeImport(imp)
    \/ \E perm \in Permutations(1..Len(repo.analyses)) : CallBuild(perm)
    \/ \E content \in SeqsUpTo({"x", "\n", "LONG"}, PureLen) : CallCountLines(content)
    \/ CallReturn

SpecPure == Init /\ [][NextPure]_vars


\* --- the tool server: start_watch, stop_watch and get_activity on its
\* registry of daemons (mcp/main.go) ---

\* the number of daemons the tool server creates
MaxDaemons == 3

\* the absolute paths of the requests
McpPaths == {"/p", "/q"}

\* the request of thread t is over: the deferred watchersMu.Unlock()
McpReturn(m, t, res) ==
    [m EXCEPT !.holder = "none", !.pc[t] = "idle", !.arg[t] = "none", !.result[t] = res]

\* a start_watch that does not look the path up in the registry
handleStartWatchNoLookup(m, t, ok) ==
    LET path == m.arg[t]
        id == Len(m.daemons) + 1
    IN  IF ~ok
        THEN McpReturn([m EXCEPT !.daemons = Append(@, [path |-> path, state |-> "failed",
                                                       stops |-> 0, registered |-> FALSE])],
                       t, "failed")
        ELSE McpReturn([m EXCEPT !.daemons = Append(@, [path |-> path, state |-> "running",
                                                       stops |-> 0, registered |-> TRUE]),
                                 !.watchers = MapPut(@, path, id)],
                       t, "started")

\* handleStartWatch with watchersMu held: the lookup, watch.NewDaemon,
\* daemon.Start (ok: it returns no error) and the registration
handleStartWatch(m, t, ok) ==
    LET path == m.arg[t]
        id == Len(m.daemons) + 1
    IN  IF path \in DOMAIN m.watchers
        THEN McpReturn(m, t, "already")
        ELSE IF ~ok
        THEN McpReturn([m EXCEPT !.daemons = Append(@, [path |-> path, state |-> "failed",
                                                       stops |-> 0, registered |-> FALSE])],
                       t, "failed")
        ELSE McpReturn([m EXCEPT !.daemons = Append(@, [path |-> path, state |-> "running",
                                                       stops |-> 0, registered |-> TRUE]),
                                 !.watchers = MapPut(@, path, id)],
                       t, "started")

\* handleStopWatch with watchersMu held: the lookup, daemon.Stop() and the
\* removal from the registry
handleStopWatch(m, t) ==
    LET path == m.arg[t]
    IN  IF path \notin DOMAIN m.watchers
        THEN McpReturn(m, t, "nowatcher")
        ELSE McpReturn([m EXCEPT !.daemons[m.watchers[path]].state = "stopped",
                                 !.daemons[m.watchers[path]].stops = @ + 1,
                                 !.watchers = MapDelete(@, path)],
                       t, "stopped")

McpStep ==
    /\ NoCall
    /\ UNCHANGED <<pidFile, cli, hookPc, envVars, timeVars, graphVars, daemonVars, fileVars>>

\* a request arrives on thread t and takes watchersMu.Lock()
McpCall(t, kind, path) ==
    /\ mcp.pc[t] = "idle"
    /\ mcp.holder = "none"
    /\ mcp' = [mcp EXCEPT !.holder = t, !.pc[t] = kind, !.arg[t] = path]
    /\ McpStep

McpStartWatch(t, ok) ==
    /\ mcp.pc[t] = "start"
    /\ mcp' = handleStartWatch(mcp, t, ok)
    /\ McpStep

McpStopWatch(t) ==
    /\ mcp.pc[t] = "stop"
    /\ mcp' = handleStopWatch(mcp, t)
    /\ McpStep

\* handleGetActivity: the lookup under watchersMu.RLock(); the daemon is
\* used after RUnlock
McpGetActivity(t, path) ==
    /\ mcp.pc[t] = "idle"
    /\ mcp.holder = "none"
    /\ mcp' = [mcp EXCEPT !.result[t] = IF path \in DOMAIN mcp.watchers
                                        THEN "activity" ELSE "nowatcher"]
    /\ McpStep

NextMcp ==
    \/ Len(mcp.daemons) < MaxDaemons /\ \E t \in McpThreads, path \in McpPaths : McpCall(t, "start", path)
    \/ \E t \in McpThreads, path \in McpPaths : McpCall(t, "stop", path)
    \/ \E t \in McpThreads, ok \in BOOLEAN : McpStartWatch(t, ok)
    \/ \E t \in McpThreads : McpStopWatch(t)
    \/ \E t \in McpThreads, path \in McpPaths : McpGetActivity(t, path)

SpecMcp == InitLock /\ [][NextMcp]_vars


\* --- the graph lock: the event loop, and callers of GetEvents and FileCount ---

\* the number of file-system operations of the run
MutexOps == 2

\* the threads that call GetEvents or FileCount
Callers == {"c1", "c2"}

\* the way handleEvent leaves its locked section on the event ev: the return
\* after the failed os.Stat, the return of the directory branch, or the end
ExitOf(ev) ==
    IF OpOf(ev.Op) \in {"CREATE", "WRITE"} /\ disk[ev.Name].kind = "absent" THEN "stat"
    ELSE IF OpOf(ev.Op) \in {"CREATE", "WRITE"} /\ disk[ev.Name].kind = "dir" THEN "dir"
    ELSE "end"

\* a handler that returns after the failed os.Stat with the lock held
UnlockOnExitButStat(exit, m) == IF exit = "stat" THEN m ELSE Unlock(m)

\* handleEvent: d.graph.mu.Unlock() on each way out of the locked section
UnlockOnExit(exit, m) ==
    CASE exit = "stat" -> Unlock(m)
      [] exit = "dir" -> Unlock(m)
      [] OTHER -> Unlock(m)

\* handleEvent on the event LoopPass let through: the op switch, where the
\* default case returns, then d.graph.mu.Lock()
MuLock ==
    /\ loop = "handling"
    /\ IF OpOf(Head(fsQueue).Op) = ""
       THEN /\ fsQueue' = Tail(fsQueue)
            /\ loop' = "idle"
            /\ UNCHANGED mu
       ELSE /\ mu' = Lock(mu)
            /\ loop' = "locking"
            /\ UNCHANGED fsQueue
    /\ NoCall
    /\ UNCHANGED <<lockVars, envVars, timeVars, graphVars, phase, watchDirs, debounce,
                   scanState, stopTime, stopCalled, fileVars>>

\* handleEvent with the write lock: the locked section up to its Unlock
MuLocked ==
    /\ loop = "locking"
    /\ mu.writer = "held"
    /\ LET h == handleEvent(Head(fsQueue), clock, FALSE)
       IN  /\ Files' = h.Files
           /\ State' = h.State
           /\ Events' = h.Events
           /\ watchDirs' = h.watchDirs
           /\ loop' = IF h.recorded THEN "logging" ELSE "idle"
    /\ mu' = UnlockOnExit(ExitOf(Head(fsQueue)), mu)
    /\ fsQueue' = Tail(fsQueue)
    /\ NoCall
    /\ UNCHANGED <<lockVars, envVars, timeVars, FileGraph, HasDeps, phase, debounce,
                   scanState, stopTime, stopCalled, fileVars>>

\* logEvent appends the line and calls writeState, which takes the read lock
MuWriteState ==
    /\ loop = "logging"
    /\ eventLog' = Append(eventLog, LogLine(Events[Len(Events)]))
    /\ mu' = RLock(mu, "loop")
    /\ loop' = "snapshot"
    /\ NoCall
    /\ UNCHANGED <<lockVars, envVars, timeVars, graphVars, phase, watchDirs, fsQueue, debounce,
                   scanState, stopTime, stopCalled, stateFile, writing>>

\* writeState with the read lock: the snapshot is written and the deferred
\* RUnlock runs
MuWritten ==
    /\ loop = "snapshot"
    /\ "loop" \in mu.readers
    /\ LET w == writeState(FileGraph, Files, Events, clock)
       IN  stateFile' = IF w.pending = <<>> THEN w.file ELSE FullFile(w.pending[1])
    /\ mu' = RUnlock(mu, "loop")
    /\ loop' = "idle"
    /\ NoCall
    /\ UNCHANGED <<lockVars, envVars, timeVars, graphVars, phase, watchDirs, fsQueue, debounce,
                   scanState, stopTime, stopCalled, eventLog, writing>>

\* GetEvents or FileCount called by thread c: d.graph.mu.RLock()
CallerRLock(c) ==
    /\ phase = "watching"
    /\ c \notin mu.readers \cup mu.waiting
    /\ mu' = RLock(mu, c)
    /\ NoCall
    /\ UNCHANGED <<lockVars, envVars, timeVars, graphVars, phase, loop, watchDirs, fsQueue,
                   debounce, scanState, stopTime, stopCalled, fileVars>>

\* GetEvents or FileCount returns: the deferred d.graph.mu.RUnlock()
CallerRUnlock(c) ==
    /\ c \in mu.readers
    /\ mu' = RUnlock(mu, c)
    /\ NoCall
    /\ UNCHANGED <<lockVars, envVars, timeVars, graphVars, phase, loop, watchDirs, fsQueue,
                   debounce, scanState, stopTime, stopCalled, fileVars>>

InitMutex ==
    /\ Init
    /\ repo = RepoHub

NextMutex ==
    \/ Start
    \/ StartReturn
    \/ LoopDrop
    \/ LoopPass
    \/ MuLock
    \/ MuLocked
    \/ MuWriteState
    \/ MuWritten
    \/ \E c \in Callers : CallerRLock(c)
    \/ \E c \in Callers : CallerRUnlock(c)
    \/ fsOps < MutexOps /\ Room(1) /\ \E path \in EditFiles : EnvWrite(path, TailContent)
    \/ fsOps < MutexOps /\ Room(1) /\ \E path \in EditFiles : EnvRemove(path)
    \/ fsOps < MutexOps /\ Room(1) /\ \E path \in EditFiles : EnvChmod(path)
    \/ fsOps < MutexOps /\ Room(1) /\ \E path \in EditDirs : EnvMkdir(path)

\* a goroutine that can run does run: the loop goes on through its handler,
\* and a caller that holds the read lock returns
SpecMutex ==
    /\ InitMutex
    /\ [][NextMutex]_vars
    /\ WF_vars(MuLocked)
    /\ WF_vars(MuWriteState)
    /\ WF_vars(MuWritten)
    /\ \A c \in Callers : WF_vars(CallerRUnlock(c))

\* ------------------------------------------------------------------------
\* Properties
\* ------------------------------------------------------------------------

\* the files that import path, counted on the forward map
ImportersOf(fg, path) == {a \in AllPaths : path \in Range(MapGet(fg.Imports, a))}

\* C1: after the graph build of Start, and after every FS event the daemon
\* processes afterwards, for all paths a and b: b is in imports[a] if and
\* only if a is in importers[b].
C1_ImportSymmetry ==
    FileGraph # <<>> =>
        \A a \in AllPaths, b \in AllPaths :
            b \in Range(MapGet(FileGraph[1].Imports, a))
                <=> a \in Range(MapGet(FileGraph[1].Importers, b))

\* a graph in which a file has two imports and a file imports itself, after
\* the daemon has recorded an event
C1_Witness ==
    /\ FileGraph # <<>>
    /\ Len(Events) > 0
    /\ \E a \in AllPaths : Len(MapGet(FileGraph[1].Imports, a)) >= 2
    /\ \E a \in AllPaths : a \in Range(MapGet(FileGraph[1].Imports, a))

\* C2: for every path f, IsHub(f) holds exactly when f has 3 or more
\* importers (a path absent from the importers map is no hub), HubFiles is
\* exactly the set of the paths that satisfy IsHub, and hubInfo.isHub on the
\* importers map of a written snapshot answers as IsHub does on the graph the
\* snapshot was written from.
C2_HubThreshold ==
    FileGraph # <<>> =>
        /\ \A f \in AllPaths :
              /\ IsHub(FileGraph[1], f) <=> Cardinality(ImportersOf(FileGraph[1], f)) >= 3
              /\ f \notin DOMAIN FileGraph[1].Importers => ~IsHub(FileGraph[1], f)
        /\ HubFiles(FileGraph[1]) = {f \in AllPaths : IsHub(FileGraph[1], f)}
        /\ stateFile.kind = "full" =>
              \A f \in AllPaths :
                  isHub(HubInfoOf(UnmarshalState(stateFile.doc)), f) <=> IsHub(FileGraph[1], f)

\* a written snapshot of a graph with a file of exactly three importers, a
\* file of exactly two and a path absent from the importers map
C2_Witness ==
    /\ FileGraph # <<>>
    /\ stateFile.kind = "full"
    /\ \E f \in AllPaths : Cardinality(ImportersOf(FileGraph[1], f)) = 3 /\ IsHub(FileGraph[1], f)
    /\ \E f \in AllPaths : Cardinality(ImportersOf(FileGraph[1], f)) = 2 /\ ~IsHub(FileGraph[1], f)
    /\ \E f \in AllPaths : f \notin DOMAIN FileGraph[1].Importers /\ ~IsHub(FileGraph[1], f)

\* the step appends an event to the buffer
Recorded == Len(Events') = Len(Events) + 1

\* the event a recording step appends
Last(events) == events[Len(events)]

\* the line count of a file: its line terminators, and one more when the
\* file is not empty and does not end in one
LinesOf(content) ==
    Cardinality({i \in 1..Len(content) : content[i] = "\n"})
    + (IF Len(content) > 0 /\ content[Len(content)] # "\n" THEN 1 ELSE 0)

PriorEvents(i, ops) ==
    {j \in 1..(i - 1) : Events[j].Path = Events[i].Path /\ Events[j].Op \in ops}

\* C4 as stated: for every CREATE or WRITE event e of the buffer, if a prior
\* CREATE/WRITE event for the same path is in the buffer then
\* e.delta = e.lines - prev.lines for the most recent such event prev;
\* otherwise e.delta = e.lines.
C4_DeltaAgainstPriorWrite ==
    \A i \in 1..Len(Events) :
        Events[i].Op \in {"CREATE", "WRITE"} =>
            IF PriorEvents(i, {"CREATE", "WRITE"}) # {}
            THEN Events[i].Delta = Events[i].Lines
                     - Events[SetMax(PriorEvents(i, {"CREATE", "WRITE"}))].Lines
            ELSE Events[i].Delta = Events[i].Lines

AllOps == {"CREATE", "WRITE", "REMOVE", "RENAME"}

\* C4, amended: for every CREATE or WRITE event e of the buffer, if a prior
\* event of any op for the same path is in the buffer then
\* e.delta = e.lines - prev.lines for the most recent such event prev (a
\* REMOVE or RENAME has lines = 0); otherwise e.delta = e.lines - s.lines when
\* the initial scan cached a FileState s for the path, and e.delta = e.lines
\* when it cached none.
C4_DeltaAgainstCache ==
    \A i \in 1..Len(Events) :
        Events[i].Op \in {"CREATE", "WRITE"} =>
            IF PriorEvents(i, AllOps) # {}
            THEN Events[i].Delta = Events[i].Lines - Events[SetMax(PriorEvents(i, AllOps))].Lines
            ELSE IF Events[i].Path \in DOMAIN scanState
            THEN Events[i].Delta = Events[i].Lines - scanState[Events[i].Path].Lines
            ELSE Events[i].Delta = Events[i].Lines

\* a scanned file is removed and created again with two lines: the CREATE
\* has delta = lines although the scan had cached one line
C4_Witness ==
    /\ Len(Events) = 2
    /\ Events[1].Path \in DOMAIN scanState
    /\ Events[1].Op \in {"REMOVE", "RENAME"}
    /\ Events[2].Op = "CREATE"
    /\ Events[2].Path = Events[1].Path
    /\ Events[2].Lines = 2
    /\ Events[2].Delta = 2

\* C5: every recorded REMOVE or RENAME event for a path with a cached
\* FileState has lines = 0, delta = -cached.lines and
\* size_delta = -cached.size; after the event the path is neither in the
\* FileState cache nor in the tracked files.
C5_RemoveDeltas ==
    [][(Recorded /\ Last(Events').Op \in {"REMOVE", "RENAME"}
          /\ Last(Events').Path \in DOMAIN State) =>
          LET e == Last(Events')
              p == e.Path
          IN  /\ e.Lines = 0
              /\ e.Delta = 0 - State[p].Lines
              /\ e.SizeDelta = 0 - State[p].Size
              /\ p \notin DOMAIN State'
              /\ p \notin DOMAIN Files']_vars

\* a REMOVE of a tracked two-line file that was written before: delta = -2
C5_Witness ==
    /\ Len(Events) = 2
    /\ Events[1].Op = "WRITE"
    /\ Events[1].Lines = 2
    /\ Events[2].Op = "REMOVE"
    /\ Events[2].Path = Events[1].Path
    /\ Events[2].Lines = 0
    /\ Events[2].Delta = 0 - 2
    /\ Events[2].SizeDelta = 0 - 3
    /\ Events[2].Path \notin DOMAIN State
    /\ Events[2].Path \notin DOMAIN Files

\* C6: the debounce law: no two events of the buffer for one path have
\* timestamps closer than 100 ms.
C6_DebounceLaw ==
    \A i \in 1..Len(Events), j \in 1..Len(Events) :
        (i < j /\ Events[i].Path = Events[j].Path) =>
            Events[j].Time - Events[i].Time >= DebounceWindow

\* C8: ReadState returns nil when state.json is missing, cannot be
\* deserialized, or is older than 30 s (now - updated_at > 30 s), and the
\* deserialized snapshot otherwise; a snapshot aged exactly 30 s is still
\* accepted, and once the daemon has stopped (its event loop has returned)
\* and more than 30 s have passed every read returns nil.
C8_ReadStateFreshness ==
    obs.kind = "state" =>
        /\ IF stateFile.kind = "absent" \/ stateFile.kind = "partial"
           THEN obs.result = <<>>
           ELSE IF obs.at - stateFile.doc.updated_at > FreshnessWindow
           THEN obs.result = <<>>
           ELSE /\ Len(obs.result) = 1
                /\ obs.result[1].UpdatedAt = stateFile.doc.updated_at
                /\ obs.result[1].FileCount = stateFile.doc.file_count
                /\ obs.result[1].Hubs = stateFile.doc.hubs
                /\ obs.result[1].Importers = FileGraph[1].Importers
                /\ obs.result[1].Imports = FileGraph[1].Imports
                /\ Len(obs.result[1].RecentEvents) = Len(stateFile.doc.recent_events)
                /\ \A i \in 1..Len(stateFile.doc.recent_events) :
                      <<"time", <<obs.result[1].RecentEvents[i].Time>>>>
                          \in stateFile.doc.recent_events[i]
        /\ (stopTime # <<>> /\ obs.at - stopTime[1] > FreshnessWindow) => obs.result = <<>>

\* a read of a snapshot aged exactly 30 s, which returns it
C8_Witness ==
    /\ obs.kind = "state"
    /\ stateFile.kind = "full"
    /\ obs.at - stateFile.doc.updated_at = FreshnessWindow
    /\ obs.result # <<>>

\* C10: GetEvents(limit) returns, in the order of the buffer, the last
\* min(limit, n) events of the n in the buffer when limit > 0 and all n when
\* limit = 0; never more than n, never reordered.
C10_GetEventsTail ==
    obs.kind = "events" =>
        LET n == Len(Events)
            k == IF obs.limit = 0 \/ obs.limit > n THEN n ELSE obs.limit
        IN  /\ Len(obs.result) = k
            /\ Len(obs.result) <= n
            /\ \A i \in 1..k : obs.result[i] = Events[n - k + i]

\* a call with limit 1 on a buffer of two different events returns the later
C10_Witness ==
    /\ obs.kind = "events"
    /\ obs.limit = 1
    /\ Len(Events) = 2
    /\ Events[1] # Events[2]
    /\ obs.result = <<Events[2]>>

\* the events a written snapshot lists
Listed == UnmarshalState(stateFile.doc).RecentEvents

\* C7: every snapshot the daemon has written lists in recent_events exactly
\* the last min(50, k) events of the buffer as it stood at some point of the
\* run (k its length then), in the order of the buffer and with none skipped.
C7_SnapshotTail ==
    stateFile.kind = "full" =>
        \E k \in 0..Len(Events) :
            LET m == IF k < 50 THEN k ELSE 50
            IN  /\ Len(Listed) = m
                /\ \A i \in 1..m : Listed[i] = Events[k - m + i]

\* a snapshot written from a buffer of 52 events lists the last 50 of them
C7_Witness ==
    /\ stateFile.kind = "full"
    /\ Len(Events) = 52
    /\ Len(Listed) = 50
    /\ Listed[1] = Events[3]
    /\ Listed[50] = Events[52]
    /\ Listed[1] # Events[1]

\* the daemons that watch the root: the processes that run codemap watch
\* start, and the daemon of the tool server
WatchingDaemons ==
    {p \in Hooks : cli[p] = "watching"}
    \cup (IF phase \in {"watching", "stopping"} THEN {0} ELSE {})

\* C9: only one daemon runs per repository: under any interleaving of start
\* attempts (session-start hooks that test IsRunning and then launch,
\* start_watch calls of the tool server) and stops, two daemons never watch
\* the same root at the same time.
C9_SingleDaemon == Cardinality(WatchingDaemons) <= 1

\* C11: events are returned by value: nothing a caller does to the events
\* GetEvents returned to it, the related_hot list of an event included,
\* changes the buffer of the daemon.
C11_ReturnedByValue ==
    [][(obs.kind = "events" /\ obs'.kind = "events") => Events' = Events]_vars

\* C12: every event of the buffer has a path with a recognized source
\* extension, whenever the file system changes between the filter of the
\* loop and the handler.
C12_OnlySourceEvents == \A i \in 1..Len(Events) : isSourceFile(Events[i].Path)

\* C13: whenever the loop consumes a CREATE event whose target is a
\* directory, nothing is appended to the buffer, the tracked files and the
\* FileState cache are unchanged, and the directory is in the watch set
\* afterwards unless its name is hidden or an ignored name.
C13_DirectoryCreateAbsorbed ==
    [][(/\ fsQueue # <<>>
        /\ fsQueue' = Tail(fsQueue)
        /\ OpOf(Head(fsQueue).Op) = "CREATE"
        /\ disk[Head(fsQueue).Name].kind = "dir")
       => /\ Events' = Events
          /\ Files' = Files
          /\ State' = State
          /\ ~SkippedDirName(Base(Head(fsQueue).Name)) => Head(fsQueue).Name \in watchDirs']_vars

\* C14: for every file a of a built graph, imports[a] never contains a, so
\* no file is among its own importers either.
C14_NoSelfImport ==
    FileGraph # <<>> =>
        \A a \in AllPaths :
            /\ a \notin Range(MapGet(FileGraph[1].Imports, a))
            /\ a \notin Range(MapGet(FileGraph[1].Importers, a))

\* the paths of a graph: the keys and the members of both direction maps
GraphPaths(fg) ==
    {p \in AllPaths :
        \/ p \in DOMAIN fg.Imports
        \/ p \in DOMAIN fg.Importers
        \/ \E a \in AllPaths : p \in Range(MapGet(fg.Imports, a))
        \/ \E a \in AllPaths : p \in Range(MapGet(fg.Importers, a))}

\* C15: once the daemon has processed a REMOVE or RENAME event for path p,
\* p is neither a key nor a member of a list of imports or importers of the
\* live graph.
C15_RemovedPathPurged ==
    [][(/\ Len(Events') = Len(Events) + 1
        /\ Events'[Len(Events')].Op \in {"REMOVE", "RENAME"}
        /\ FileGraph' # <<>>)
       => Events'[Len(Events')].Path \notin GraphPaths(FileGraph'[1])]_vars

\* C16: whenever the loop is ready to take the next FS event and the buffer
\* holds an event, state.json is a complete snapshot written no earlier than
\* the last event, with the current file count, the hub files, both
\* direction maps and a recent_events tail that ends with the last event.
C16_SnapshotAfterEveryEvent ==
    (loop = "idle" /\ Len(Events) > 0) =>
        /\ stateFile.kind = "full"
        /\ FileGraph # <<>>
        /\ LET s == UnmarshalState(stateFile.doc)
           IN  /\ s.UpdatedAt >= Events[Len(Events)].Time
               /\ s.FileCount = Cardinality(DOMAIN Files)
               /\ s.Hubs = HubFiles(FileGraph[1])
               /\ s.Importers = FileGraph[1].Importers
               /\ s.Imports = FileGraph[1].Imports
               /\ Len(s.RecentEvents) > 0
               /\ s.RecentEvents[Len(s.RecentEvents)] = Events[Len(Events)]

\* C17: a reader of state.json that runs while the daemon rewrites it reads
\* a complete snapshot, the previous or the new one, never a truncated or
\* partially written file.
C17_AtomicRewrite ==
    (obs.kind = "state" /\ loop = "writing") =>
        /\ stateFile.kind = "full"
        /\ obs.result # <<>> \/ obs.at - stateFile.doc.updated_at > FreshnessWindow

\* C18: once a daemon that was told to stop is stopped (the watcher is
\* closed and the event loop has returned), the watcher watches nothing,
\* watch.pid is absent, and state.json is a complete snapshot written since
\* Stop was called that lists the last event appended.
C18_StopDrains ==
    (phase = "stopped" /\ loop = "exited") =>
        /\ watchDirs = {}
        /\ pidFile = <<>>
        /\ stateFile.kind = "full"
        /\ UnmarshalState(stateFile.doc).UpdatedAt >= stopCalled[1]
        /\ Len(Events) > 0 =>
              /\ Len(Listed) > 0
              /\ Listed[Len(Listed)] = Events[Len(Events)]

C21_PidfileWhileWatching ==
    phase = "watching" => pidFile # <<>> /\ IsRunning(pidFile, cli)

C24_CountLines ==
    obs.kind = "lines" =>
        obs.result = Len(Positions(obs.arg, "\n"))
                     + (IF obs.arg # <<>> /\ obs.arg[Len(obs.arg)] # "\n" THEN 1 ELSE 0)

\* a direction map up to the order of its lists
AsSets(m) == [k \in DOMAIN m |-> Range(m[k])]

\* C23: two runs of the graph build over the same tree yield the same
\* imports and importers maps, up to the order of their lists, and the same
\* hub set.
C23_RebuildEqual ==
    obs.kind = "build" =>
        /\ AsSets(obs.first.Imports) = AsSets(obs.second.Imports)
        /\ AsSets(obs.first.Importers) = AsSets(obs.second.Importers)
        /\ HubFiles(obs.first) = HubFiles(obs.second)
        /\ \A f \in AllPaths : IsHub(obs.first, f) <=> IsHub(obs.second, f)

\* the second run listed the importers of a hub file in another order
C23_Witness ==
    /\ obs.kind = "build"
    /\ obs.first.Importers # obs.second.Importers
    /\ HubFiles(obs.first) # {}
    /\ \E f \in AllPaths : Len(MapGet(obs.first.Imports, f)) >= 2

\* the import without its surrounding quotes, with "." replaced by the path
\* separator when it holds "." but no "/" and does not start with "."
Dotted(imp) ==
    LET u == TrimQuotes(imp)
    IN  IF Contains(u, ".") /\ ~Contains(u, "/") /\ ~HasPrefix(u, <<".">>)
        THEN ReplaceAll(u, ".", "/")
        ELSE u

\* C26: normalization strips the surrounding quotes, replaces "." by the
\* path separator in a dotted import, and for an import that starts with
\* crate:: or with super:: drops that prefix and replaces :: by the path
\* separator (super::a::b normalizes to a/b).
C26_Normalization ==
    obs.kind = "normalize" =>
        obs.result =
            IF HasPrefix(Dotted(obs.arg), <<"crate", "::">>)
            THEN ReplaceAll(TrimPrefix(Dotted(obs.arg), <<"crate", "::">>), "::", "/")
            ELSE IF HasPrefix(Dotted(obs.arg), <<"super", "::">>)
            THEN ReplaceAll(TrimPrefix(Dotted(obs.arg), <<"super", "::">>), "::", "/")
            ELSE Dotted(obs.arg)

\* the first of the results that is not empty
FirstNonEmpty(results) ==
    IF \E i \in 1..Len(results) : results[i] # <<>>
    THEN results[CHOOSE i \in 1..Len(results) :
                    results[i] # <<>> /\ \A j \in 1..(i - 1) : results[j] = <<>>]
    ELSE <<>>

\* C25: the resolver returns the result of the first of module match,
\* relative match, exact match and suffix match that is not empty; a
\* relative match that finds no file falls through to exact and suffix match.
C25_StrategyOrder ==
    obs.kind = "resolve" =>
        LET fromDir == IF Dir(obs.from) = <<".">> THEN <<>> ELSE Dir(obs.from)
            normalized == normalizeImport(obs.imp)
        IN  obs.result = FirstNonEmpty(
                << IF HasPrefix(obs.imp, <<"m">>) THEN MapGet(PureIndex.goPkgs, obs.imp) ELSE <<>>,
                   IF HasPrefix(obs.imp, <<".">>)
                   THEN resolveRelative(obs.imp, fromDir, PureIndex) ELSE <<>>,
                   tryExactMatch(normalized, PureIndex),
                   trySuffixMatch(normalized, PureIndex) >>)

\* the extension candidates, in order
CandidateList ==
    << <<>>, <<".", "go">>, <<".", "py">>, <<".", "js">>, <<".", "ts">>, <<".", "tsx">>,
       <<".", "jsx">>, <<".", "rs">>, <<".", "rb">>, <<".", "java">>,
       <<"/", "index", ".", "js">>, <<"/", "index", ".", "ts">>,
       <<"/", "index", ".", "tsx">>, <<"/", "__init__", ".", "py">>,
       <<"/", "mod", ".", "rs">> >>

\* the files of the first candidate key of a map, <<>> when none is a key
FirstKey(m, base) ==
    FirstNonEmpty([i \in 1..Len(CandidateList) |-> MapGet(m, base \o CandidateList[i])])

\* C27: exact match and suffix match return the files of the first key
\* present among the same extension candidates in the same order, and
\* suffix match tries <normalized>/__init__.py besides.
C27_SameCandidates ==
    obs.kind = "match" =>
        /\ obs.exact = FirstKey(PureIndex.byExact, obs.arg)
        /\ obs.suffix = FirstNonEmpty(<<FirstKey(PureIndex.bySuffix, obs.arg),
                                        MapGet(PureIndex.bySuffix,
                                               obs.arg \o <<"/", "__init__", ".", "py">>)>>)

\* C28: once Stop has closed the shutdown channel the event loop takes no
\* further FS event: no event is appended to the buffer from then on.
C28_NoEventAfterStop ==
    [][(phase \in {"stopping", "stopped"}) => (Events' = Events)]_vars

\* C29: the event buffer is append-only and order-preserving.  A step of the
\* daemon changes the buffer only by appending one event; that event is made from
\* the FS event at the head of the watcher queue, which the step consumes; the
\* queue itself only grows at its tail, loses its head, or is closed; and the
\* timestamps of the buffer are non-decreasing.
C29_AppendOnly ==
    [][/\ Len(Events') >= Len(Events)
       /\ SubSeq(Events', 1, Len(Events)) = Events
       /\ (Events' # Events) =>
              (/\ Len(Events') = Len(Events) + 1
               /\ fsQueue # <<>>
               /\ fsQueue' = Tail(fsQueue)
               /\ Last(Events').Path = Head(fsQueue).Name
               /\ Last(Events').Op = OpOf(Head(fsQueue).Op))
       /\ \/ fsQueue' = <<>>
          \/ fsQueue # <<>> /\ fsQueue' = Tail(fsQueue)
          \/ /\ Len(fsQueue') >= Len(fsQueue)
             /\ SubSeq(fsQueue', 1, Len(fsQueue)) = fsQueue
       /\ \A i \in 1..(Len(Events') - 1) : Events'[i].Time <= Events'[i + 1].Time]_vars

\* two events of different operations in the buffer, the second stamped later
C29_Witness ==
    /\ Len(Events) = 2
    /\ Events[1].Op # Events[2].Op
    /\ Events[1].Time < Events[2].Time

\* connected(path) as the specification defines it: the imports and the
\* importers of path in the file graph, without path itself
Connected(fg, path) ==
    {p \in Range(MapGet(fg.Imports, path)) \cup Range(MapGet(fg.Importers, path)) : p # path}

\* C30: with a file graph, the related_hot of the event a step appends is
\* exactly the set of files connected to its path that are the path of a
\* CREATE or WRITE event of the buffer stamped within the last 5 minutes.
C30_RelatedHot ==
    [][(Len(Events') = Len(Events) + 1 /\ HasDeps /\ FileGraph # <<>>) =>
          (Last(Events').RelatedHot =
              {p \in Connected(FileGraph[1], Last(Events').Path) :
                  \E i \in 1..Len(Events) :
                      /\ Events[i].Path = p
                      /\ Events[i].Op \in {"CREATE", "WRITE"}
                      /\ Events[i].Time >= Last(Events').Time - HotWindow})]_vars

\* b.go was saved, a.go was saved right after and lists b.go, and a.go was
\* saved again more than 5 minutes later and lists nothing
C30_Witness ==
    /\ Len(Events) = 3
    /\ HasDeps
    /\ Events[1].Path = PathB
    /\ Events[2].Path = PathA
    /\ Events[2].RelatedHot = {PathB}
    /\ Events[3].Path = PathA
    /\ Events[3].Time - HotWindow > Events[1].Time
    /\ Events[3].RelatedHot = {}

\* C31: whenever the debouncer discards an FS event for a source path, an
\* event for that path was appended to the buffer less than 100 ms earlier.
C31_BurstYieldsEvent ==
    [][(/\ loop = "idle"
        /\ fsQueue # <<>>
        /\ fsQueue' = Tail(fsQueue)
        /\ ~Filtered(Head(fsQueue))
        /\ Debounced(Head(fsQueue))) =>
          (\E i \in 1..Len(Events) :
              /\ Events[i].Path = Head(fsQueue).Name
              /\ clock - Events[i].Time < DebounceWindow)]_vars

\* C32: once the daemon is watching, the event loop is the only writer of
\* the graph: a step that changes the tracked files, the FileState cache, the
\* event buffer or the file graph is a step of the loop handling the FS event
\* at the head of the watcher queue, never a step of a query caller.
C32_LoopOnlyWriter ==
    [][(phase = "watching" /\ <<Files, State, Events, FileGraph>>' # <<Files, State, Events, FileGraph>>) =>
          (loop = "idle" /\ fsQueue # <<>> /\ fsQueue' = Tail(fsQueue) /\ obs' = NoObs)]_vars

\* C33: every directory of the watch set other than the root is a non-ignored
\* directory: its name is not hidden and is none of the always-skipped names.
C33_WatchSetNotIgnored ==
    \A dir \in watchDirs :
        dir # <<>> => (~HasPrefix(Base(dir), <<".">>) /\ Base(dir) \notin IgnoredDirs)

RECURSIVE SumDelta(_, _)
\* the sum of delta over the events of the buffer for path
SumDelta(events, path) ==
    IF events = <<>> THEN 0
    ELSE (IF Head(events).Path = path THEN Head(events).Delta ELSE 0)
         + SumDelta(Tail(events), path)

RECURSIVE SumSizeDelta(_, _)
\* the sum of size_delta over the events of the buffer for path
SumSizeDelta(events, path) ==
    IF events = <<>> THEN 0
    ELSE (IF Head(events).Path = path THEN Head(events).SizeDelta ELSE 0)
         + SumSizeDelta(Tail(events), path)

\* the cached lines and size of path in a FileState cache, 0 without an entry
CachedLines(st, path) == IF path \in DOMAIN st THEN st[path].Lines ELSE 0

CachedSize(st, path) == IF path \in DOMAIN st THEN st[path].Size ELSE 0

\* C34: telescoping of deltas: for every path, the line count the initial scan
\* cached (0 if none) plus the sum of delta over the recorded events for the
\* path equals the line count cached now (0 if none); likewise for size_delta
\* and the cached size.
C34_Telescoping ==
    \A p \in AllPaths :
        /\ CachedLines(scanState, p) + SumDelta(Events, p) = CachedLines(State, p)
        /\ CachedSize(scanState, p) + SumSizeDelta(Events, p) = CachedSize(State, p)

\* a scanned file with two recorded events that both changed its line count
C34_Witness ==
    /\ Len(Events) = 2
    /\ Events[1].Path = Events[2].Path
    /\ Events[1].Path \in DOMAIN scanState
    /\ Events[1].Delta # 0
    /\ Events[2].Delta # 0
    /\ Events[2].Path \in DOMAIN State

\* C35: the loop never asks for the read lock of writeState while it holds
\* the write lock, and no thread waits forever on the graph lock: a blocked
\* reader gets the read lock, and the waiting loop gets the write lock.
C35_NoWaitForever ==
    /\ [](loop \in {"logging", "snapshot"} => mu.writer # "held")
    /\ \A t \in Callers \cup {"loop"} : (t \in mu.waiting) ~> (t \in mu.readers)
    /\ (loop = "locking") ~> (mu.writer = "held")

\* the loop holds the write lock with a caller blocked behind it, on an event
\* whose handler returns after the failed os.Stat
C35_Witness ==
    /\ loop = "locking"
    /\ mu.writer = "held"
    /\ mu.waiting # {}
    /\ ExitOf(Head(fsQueue)) = "stat"

\* the daemons of the tool server that run on path
RunningOn(path) ==
    {i \in 1..Len(mcp.daemons) : mcp.daemons[i].path = path /\ mcp.daemons[i].state = "running"}

\* C36: in the tool server, at most one daemon runs per absolute path and it
\* is the one of the registry; a daemon whose Start failed is never
\* registered; Stop is invoked at most once on a daemon, and only on a
\* registered one.
C36_Registry ==
    /\ \A path \in McpPaths :
          /\ Cardinality(RunningOn(path)) <= 1
          /\ RunningOn(path) = (IF path \in DOMAIN mcp.watchers THEN {mcp.watchers[path]} ELSE {})
    /\ \A i \in 1..Len(mcp.daemons) :
          /\ mcp.daemons[i].stops <= 1
          /\ mcp.daemons[i].stops = 1 => mcp.daemons[i].registered
          /\ mcp.daemons[i].state = "failed" => ~mcp.daemons[i].registered /\ mcp.daemons[i].stops = 0

\* a start_watch on a watched path was answered without a new daemon, after
\* one daemon failed to start and another was stopped
C36_Witness ==
    /\ \E t \in McpThreads : mcp.result[t] = "already"
    /\ \E i \in 1..Len(mcp.daemons) : mcp.daemons[i].state = "failed"
    /\ \E i \in 1..Len(mcp.daemons) : mcp.daemons[i].stops = 1
    /\ mcp.watchers # EmptyMap

\* C37: while the daemon is watching and its snapshot is on disk, a consumer
\* calling ReadState obtains a snapshot, however long ago the last FS event
\* was.
C37_LiveSnapshotFresh ==
    (obs.kind = "state" /\ phase = "watching" /\ stateFile.kind = "full") => obs.result # <<>>

\* C38: the termination signal goes only to a process that is the watch
\* daemon: IsRunning reports a running daemon only when the process of the
\* pidfile is one, and the process watch.Stop or the session-stop hook
\* terminates was a watch daemon.
C38_OnlyDaemonSignalled ==
    [][/\ IsRunning(pidFile, cli) => (cli[pidFile[1]] = "watching")
       /\ \A pid \in Hooks :
             (cli[pid] # "exited" /\ cli'[pid] = "exited") => (cli[pid] = "watching")]_vars

\* C39: every path with a FileState cache entry is a tracked file; a recorded
\* CREATE/WRITE adds or replaces both entries of its path, a recorded
\* REMOVE/RENAME deletes both, the entries of every other path stay as they
\* are, and the number of tracked files changes by at most one.
C39_CacheWithinFiles ==
    [][/\ DOMAIN State' \subseteq DOMAIN Files'
       /\ (Len(Events') = Len(Events) + 1) =>
             (LET e == Events'[Len(Events')]
              IN  /\ e.Op \in {"CREATE", "WRITE"} =>
                        /\ e.Path \in DOMAIN Files' \cap DOMAIN State'
                        /\ Files'[e.Path] = FileInfoAt(disk, e.Path)
                        /\ State'[e.Path] = [Lines |-> e.Lines, Size |-> SizeAt(disk, e.Path)]
                  /\ e.Op \in {"REMOVE", "RENAME"} =>
                        e.Path \notin DOMAIN Files' \cup DOMAIN State'
                  /\ \A p \in AllPaths \ {e.Path} :
                        /\ p \in DOMAIN Files' <=> p \in DOMAIN Files
                        /\ p \in DOMAIN Files => Files'[p] = Files[p]
                        /\ p \in DOMAIN State' <=> p \in DOMAIN State
                        /\ p \in DOMAIN State => State'[p] = State[p]
                  /\ Cardinality(DOMAIN Files') - Cardinality(DOMAIN Files) \in {-1, 0, 1})
       /\ (phase # "new" /\ Events' = Events) => (Files' = Files /\ State' = State)]_vars

\* a tracked file was removed and created again: both events are recorded
\* and the file is tracked and cached
C39_Witness ==
    /\ Len(Events) = 2
    /\ Events[1].Op \in {"REMOVE", "RENAME"}
    /\ Events[1].Path \in DOMAIN scanState
    /\ Events[2].Op = "CREATE"
    /\ Events[2].Path = Events[1].Path
    /\ Events[2].Path \in DOMAIN State

\* C40: once every delivered FS event has been handled, the cached line
\* count and size of each source file equal those of the file on disk, and
\* a source file that is no longer on disk is neither tracked nor cached.
C40_ConsistentWhenQuiet ==
    (phase = "watching" /\ loop = "idle" /\ fsQueue = <<>>) =>
        \A p \in {q \in AllPaths : isSourceFile(q)} :
            IF disk[p].kind = "file"
            THEN /\ CachedLines(State, p) = countLinesAt(disk, p)
                 /\ CachedSize(State, p) = SizeAt(disk, p)
            ELSE p \notin DOMAIN Files \cup DOMAIN State

====
